---- MODULE Spec2Model ----
(***************************************************************************)
(* Model of the mini-bot trading core: Market Guard (market_guard.py),     *)
(* Risk Guard (risk_guard.py), Execution Engine (execution.py), the order  *)
(* and position tables of the SQLite store (state_store.py) and the part   *)
(* of the orchestrator cycle that wires them together (run_cycle.py).      *)
(*                                                                         *)
(* Numbers.  The program works with Python floats that are quantized with  *)
(* exact decimal arithmetic.  The model keeps every number exact: a value  *)
(* is a rational <<n, d>> with d > 0 in lowest terms, over integer base    *)
(* units (one price unit, one quantity unit; notionals and balances are    *)
(* in price-unit * quantity-unit).  Binary rounding error of floats is     *)
(* outside the model.                                                      *)
(*                                                                         *)
(* Identifiers.  The md5-based client order id is modelled as the tagged   *)
(* seed it is computed from: equal seeds give equal ids and different      *)
(* seeds give different ids (digest collisions are outside the model).     *)
(***************************************************************************)
EXTENDS Integers, Sequences, FiniteSets, TLC

\* Python's None: the empty tuple where a number, record or id is expected,
\* the string "none" where a string (side, reason, error) is expected.
None == <<>>
NoneStr == "none"

\* ------------------------------------------------------------------------
\* Exact rational arithmetic
\* ------------------------------------------------------------------------
Abs(x) == IF x < 0 THEN -x ELSE x

RECURSIVE GCD(_, _)
GCD(a, b) == IF b = 0 THEN a ELSE GCD(b, a % b)

Rat(n, d) ==
  LET s == IF d < 0 THEN -1 ELSE 1
      g == GCD(Abs(n), Abs(d))
  IN  <<(s * n) \div g, (s * d) \div g>>

R(i) == <<i, 1>>
RZero == R(0)
\* Denominators are reduced by their common divisor first, which keeps the
\* intermediate products small.
RLt(a, b) ==
  LET g == GCD(a[2], b[2]) IN a[1] * (b[2] \div g) < b[1] * (a[2] \div g)
RLe(a, b) ==
  LET g == GCD(a[2], b[2]) IN a[1] * (b[2] \div g) <= b[1] * (a[2] \div g)
RAdd(a, b) ==
  LET g == GCD(a[2], b[2])
  IN  Rat(a[1] * (b[2] \div g) + b[1] * (a[2] \div g), (a[2] \div g) * b[2])
RSub(a, b) ==
  LET g == GCD(a[2], b[2])
  IN  Rat(a[1] * (b[2] \div g) - b[1] * (a[2] \div g), (a[2] \div g) * b[2])
RMul(a, b) ==
  LET g1 == GCD(Abs(a[1]), b[2])
      g2 == GCD(Abs(b[1]), a[2])
  IN  Rat((a[1] \div g1) * (b[1] \div g2), (a[2] \div g2) * (b[2] \div g1))
RDiv(a, b) == RMul(a, IF b[1] < 0 THEN <<-b[2], -b[1]>> ELSE <<b[2], b[1]>>)
RAbs(a) == <<Abs(a[1]), a[2]>>
RMin(a, b) == IF RLe(a, b) THEN a ELSE b
RMax(a, b) == IF RLe(a, b) THEN b ELSE a
RIsMultiple(a, step) == a[2] = 1 /\ a[1] % step = 0

\* ------------------------------------------------------------------------
\* Market Guard (bot/market_guard.py)
\* ------------------------------------------------------------------------
ROUND_DOWN == "ROUND_DOWN"
ROUND_UP == "ROUND_UP"
ROUND_HALF_EVEN == "ROUND_HALF_EVEN"

\* Decimal.to_integral_value of the rational n/d (d > 0) under a rounding mode.
to_integral_value(n, d, mode) ==
  LET m == Abs(n)
      fl == m \div d
      rem == m % d
      sgn == IF n < 0 THEN -1 ELSE 1
      mag == CASE mode = ROUND_DOWN -> fl
               [] mode = ROUND_UP -> IF rem = 0 THEN fl ELSE fl + 1
               [] OTHER ->
                    IF 2 * rem < d THEN fl
                    ELSE IF 2 * rem > d THEN fl + 1
                    ELSE IF fl % 2 = 0 THEN fl ELSE fl + 1
  IN  sgn * mag

\* _quantize(value, step, mode): value is a rational, step an integer number
\* of base units; a step <= 0 returns the value unchanged.
quantize(value, step, mode) ==
  IF step <= 0 THEN value
  ELSE R(to_integral_value(value[1], value[2] * step, mode) * step)

round_price_for_side(price, step, side) ==
  IF side = "buy" THEN quantize(price, step, ROUND_DOWN)
  ELSE IF side = "sell" THEN quantize(price, step, ROUND_UP)
  ELSE quantize(price, step, ROUND_DOWN)

round_qty_floor(qty, step) == quantize(qty, step, ROUND_DOWN)

round_to_step(value, step) == quantize(value, step, ROUND_HALF_EVEN)

\* SymbolMeta: the dataclass has four fields (integers in base units); max_qty
\* and max_price are read with getattr(..., None) and are None unless a caller
\* attached them (then they are rationals).
SymbolMeta(pinc, qinc, mnot, mqty) ==
  [price_increment |-> pinc, quantity_increment |-> qinc,
   min_notional |-> mnot, min_qty |-> mqty,
   max_qty |-> None, max_price |-> None]

SanResult(px, amount, err) == [px |-> px, qty |-> amount, error |-> err]

\* sanitize_order, from its last check to its first.
\* Lines 88-96: the optional upper bounds.
sanitize_max(symbol_meta, px, amount) ==
  IF symbol_meta.max_qty # None /\ RLt(symbol_meta.max_qty, amount)
    THEN SanResult(px, amount, "max_qty")
  ELSE IF symbol_meta.max_price # None /\ RLt(symbol_meta.max_price, px)
    THEN SanResult(px, amount, "max_price")
  ELSE SanResult(px, amount, NoneStr)

\* Lines 85-86: the notional is tested again after the bump.
sanitize_bumped(symbol_meta, px, amount) ==
  IF RLt(RMul(px, amount), R(symbol_meta.min_notional))
    THEN SanResult(px, amount, "min_notional")
    ELSE sanitize_max(symbol_meta, px, amount)

\* Lines 76-84: a notional below the minimum is bumped by raising the
\* quantity to min_notional / px rounded up to the quantity step.
sanitize_notional(symbol_meta, px, amount, auto_bump_min_notional) ==
  IF RLt(RMul(px, amount), R(symbol_meta.min_notional))
    THEN IF ~auto_bump_min_notional \/ RLe(px, RZero)
           THEN SanResult(px, amount, "min_notional")
           ELSE sanitize_bumped(symbol_meta, px,
                  RMax(quantize(RDiv(R(symbol_meta.min_notional), px),
                                symbol_meta.quantity_increment, ROUND_UP),
                       amount))
    ELSE sanitize_max(symbol_meta, px, amount)

\* Lines 67-74: bumped is min_qty floored to the quantity step.
sanitize_min_qty(symbol_meta, px, amount, bumped, auto_bump_min_notional) ==
  IF RLe(amount, RZero) THEN SanResult(px, amount, "min_qty")
  ELSE IF RLt(amount, R(symbol_meta.min_qty))
    THEN IF RLe(bumped, RZero) THEN SanResult(px, amount, "min_qty")
         ELSE sanitize_notional(symbol_meta, px, bumped, auto_bump_min_notional)
  ELSE sanitize_notional(symbol_meta, px, amount, auto_bump_min_notional)

sanitize_order(symbol_meta, side, price, qty, auto_bump_min_notional) ==
  IF RLe(price, RZero) \/ RLe(qty, RZero) THEN SanResult(price, qty, "invalid")
  ELSE sanitize_min_qty(symbol_meta,
         round_price_for_side(price, symbol_meta.price_increment, side),
         round_qty_floor(qty, symbol_meta.quantity_increment),
         round_qty_floor(R(symbol_meta.min_qty), symbol_meta.quantity_increment),
         auto_bump_min_notional)

\* ------------------------------------------------------------------------
\* Configuration (bot/config.py, TradingConfig defaults)
\* ------------------------------------------------------------------------
cfg_risk_pct == <<1, 100>>
cfg_fee_bp == R(2)
cfg_slip_bp == R(2)
cfg_leverage == R(3)
cfg_daily_loss_limit_pct == <<3, 100>>
cfg_max_positions == 1
cfg_extreme_annualized == <<8, 10>>
cfg_post_only == TRUE
cfg_symbol == "BTC/USDT:USDT"
\* cfg.order.timeout_bars (2) bars of the 4h timeframe, in ms
cfg_ttl_ms == 2 * 14400 * 1000
MIN_STOP_PCT == <<1, 1000>>
\* Base units: one price unit is 0.01 of the quote currency, one quantity
\* unit is 0.0001 of the base currency, so one notional unit is 1e-6 and the
\* 1e-8 tolerance of the margin check is 1/100 of a notional unit.
MARGIN_EPS == <<1, 100>>
DEFAULT_PX_STEP == 1
DEFAULT_QTY_STEP == 1

\* ------------------------------------------------------------------------
\* Risk Guard (bot/risk_guard.py)
\* ------------------------------------------------------------------------
\* The arguments of a guard_signal call (lines 109-125).
GuardArgs(nav, price, stop_px, constraints, daily_pnl_pct, funding_annualized, notify_fail_streak, notify_threshold, symbol_meta, side, available_quote, leverage, open_positions) ==
  [nav |-> nav, price |-> price, stop_px |-> stop_px, constraints |-> constraints,
   daily_pnl_pct |-> daily_pnl_pct, funding_annualized |-> funding_annualized,
   notify_fail_streak |-> notify_fail_streak, notify_threshold |-> notify_threshold,
   symbol_meta |-> symbol_meta, side |-> side, available_quote |-> available_quote,
   leverage |-> leverage, open_positions |-> open_positions]

MarketConstraints(mqty, mnot) == [min_qty |-> mqty, min_notional |-> mnot]

compute_stop_pct(price, stop_px) ==
  IF RLe(price, RZero) \/ RLe(stop_px, RZero) THEN RZero
  ELSE RDiv(RAbs(RSub(price, stop_px)), price)

cap_qty_unclamped(qty, price, available_quote, lev) ==
  IF available_quote # None /\ RLt(RZero, lev)
    THEN RMin(qty, RDiv(RMul(available_quote, lev), price))
    ELSE qty

\* compute_qty lines 74-78: the cap by the margin available at the leverage.
cap_qty(qty, price, available_quote, lev) ==
  IF available_quote # None /\ RLt(RZero, lev)
    THEN RMin(qty, RDiv(RMul(RMax(RZero, available_quote), lev), price))
    ELSE qty

\* compute_qty lines 68-72: risk budget over the stop distance.
risk_qty(nav, price, stop_pct, fee, slip) ==
  RMax(RDiv(RMul(RMul(nav, cfg_risk_pct),
                 RMin(R(1), RMax(<<8, 10>>,
                                 RSub(R(1), RDiv(RMax(RZero, RAdd(fee, slip)), R(10000)))))),
            RMul(stop_pct, price)),
       RZero)

sized_qty(nav, price, stop_pct, fee, slip, available_quote, lev) ==
  IF RLe(stop_pct, RZero) \/ RLt(stop_pct, MIN_STOP_PCT) THEN RZero
  ELSE IF RLe(nav, RZero) THEN RZero
  ELSE cap_qty(risk_qty(nav, price, stop_pct, fee, slip), price, available_quote, lev)

compute_qty(nav, price, stop_px, fee_bp, slip_bp, available_quote, leverage) ==
  sized_qty(nav, price, compute_stop_pct(price, stop_px),
            IF fee_bp = None THEN cfg_fee_bp ELSE fee_bp,
            IF slip_bp = None THEN cfg_slip_bp ELSE slip_bp,
            available_quote,
            IF leverage = None THEN cfg_leverage ELSE leverage)

\* Mutant: the funding check comes before the daily-loss check.
should_freeze_funding_first(daily_pnl_pct, funding_annualized, notify_fail_streak, notify_threshold) ==
  IF funding_annualized # None
     /\ RLt(cfg_extreme_annualized, RAbs(funding_annualized))
    THEN "funding_extreme"
  ELSE IF RLe(daily_pnl_pct, RSub(RZero, cfg_daily_loss_limit_pct)) THEN "daily_dd"
  ELSE IF notify_threshold # None /\ RLe(notify_threshold, notify_fail_streak)
    THEN "notify_down"
  ELSE NoneStr

should_freeze(daily_pnl_pct, funding_annualized, notify_fail_streak, notify_threshold) ==
  IF RLe(daily_pnl_pct, RSub(RZero, cfg_daily_loss_limit_pct)) THEN "daily_dd"
  ELSE IF funding_annualized # None
          /\ RLt(cfg_extreme_annualized, RAbs(funding_annualized))
    THEN "funding_extreme"
  ELSE IF notify_threshold # None /\ RLe(notify_threshold, notify_fail_streak)
    THEN "notify_down"
  ELSE NoneStr

respects_constraints(qty, price, constraints) ==
  IF RLt(qty, R(constraints.min_qty)) THEN FALSE
  ELSE IF RLt(RMul(qty, price), R(constraints.min_notional)) THEN FALSE
  ELSE TRUE

market_reason(error) ==
  CASE error = "invalid" -> "market_invalid"
    [] error = "min_qty" -> "market_min_qty"
    [] error = "min_notional" -> "market_min_notional"
    [] error = "max_qty" -> "market_max_qty"
    [] error = "max_price" -> "market_max_price"

GuardResult(qty, reason, fr) == [qty |-> qty, reason |-> reason, frozen |-> fr]

\* set_frozen (lines 35-40): write the flag file, or unlink it if it exists;
\* the result is whether the file exists afterwards.
set_frozen(is_frozen, value) == IF value THEN TRUE ELSE FALSE

\* guard_signal, a holds the call's arguments; the result holds the returned
\* pair and the freeze flag the call leaves behind.
\* Lines 157-164: the sanitized order and the margin it needs.
guard_sanitized(is_frozen, a, san, lev) ==
  IF san.error # NoneStr
    THEN GuardResult(None, market_reason(san.error), is_frozen)
  ELSE IF a.available_quote # None /\ RLt(RZero, lev)
          /\ RLt(RAdd(RMul(RMax(RZero, a.available_quote), lev), MARGIN_EPS),
                 RMul(san.px, san.qty))
    THEN GuardResult(None, "insufficient_margin", is_frozen)
  ELSE GuardResult(san.qty, NoneStr, is_frozen)

\* Mutant: a rejection for size or market reasons freezes the guard.
guard_sized_freezing(is_frozen, a, qty) ==
  IF qty = RZero THEN GuardResult(None, "zero_qty", set_frozen(is_frozen, TRUE))
  ELSE IF a.symbol_meta # None /\ a.side # NoneStr
    THEN guard_sanitized(is_frozen, a,
                         sanitize_order(a.symbol_meta, a.side, a.price, qty, TRUE),
                         IF a.leverage = None THEN cfg_leverage ELSE a.leverage)
  ELSE IF ~respects_constraints(qty, a.price, a.constraints)
    THEN GuardResult(None, "market_constraints", set_frozen(is_frozen, TRUE))
  ELSE GuardResult(qty, NoneStr, is_frozen)

\* Lines 147-167: the computed quantity against the market.
guard_sized(is_frozen, a, qty) ==
  IF qty = RZero THEN GuardResult(None, "zero_qty", is_frozen)
  ELSE IF a.symbol_meta # None /\ a.side # NoneStr
    THEN guard_sanitized(is_frozen, a,
                         sanitize_order(a.symbol_meta, a.side, a.price, qty, TRUE),
                         IF a.leverage = None THEN cfg_leverage ELSE a.leverage)
  ELSE IF ~respects_constraints(qty, a.price, a.constraints)
    THEN GuardResult(None, "market_constraints", is_frozen)
  ELSE GuardResult(qty, NoneStr, is_frozen)

\* Mutant: the position limit is not looked at.
guard_size_unlimited(is_frozen, a) ==
  guard_sized(is_frozen, a,
              compute_qty(a.nav, a.price, a.stop_px, None, None,
                          a.available_quote, a.leverage))

\* Lines 137-146: position limit, then sizing.
guard_size(is_frozen, a) ==
  IF a.open_positions >= cfg_max_positions
    THEN GuardResult(None, "max_positions", is_frozen)
    ELSE guard_sized(is_frozen, a,
                     compute_qty(a.nav, a.price, a.stop_px, None, None,
                                 a.available_quote, a.leverage))

\* Mutant: the freeze reason is returned but the flag file is not written.
guard_checks_no_write(is_frozen, a) ==
  LET reason == should_freeze(a.daily_pnl_pct, a.funding_annualized,
                              a.notify_fail_streak, a.notify_threshold)
  IN  IF reason # NoneStr THEN GuardResult(None, reason, is_frozen)
      ELSE guard_size(is_frozen, a)

\* Lines 128-136: a freeze condition sets the flag and rejects.
guard_checks(is_frozen, a) ==
  LET reason == should_freeze(a.daily_pnl_pct, a.funding_annualized,
                              a.notify_fail_streak, a.notify_threshold)
  IN  IF reason # NoneStr THEN GuardResult(None, reason, set_frozen(is_frozen, TRUE))
      ELSE guard_size(is_frozen, a)

\* Mutant: the frozen gate is missing.
guard_signal_ungated(is_frozen, a) == guard_checks(is_frozen, a)

\* Mutant: a frozen guard re-evaluates the conditions and lifts the freeze
\* when none of them holds any more.
guard_signal_auto_clear(is_frozen, a) ==
  IF is_frozen /\ should_freeze(a.daily_pnl_pct, a.funding_annualized,
                                a.notify_fail_streak, a.notify_threshold) # NoneStr
    THEN GuardResult(None, "manual", is_frozen)
    ELSE guard_checks(FALSE, a)

\* Lines 126-127: a frozen guard rejects everything.
guard_signal(is_frozen, a) ==
  IF is_frozen THEN GuardResult(None, "manual", is_frozen)
  ELSE guard_checks(is_frozen, a)

\* ------------------------------------------------------------------------
\* Bounds of the model
\* ------------------------------------------------------------------------
\* cfg.order.ladder_levels of the analysed configuration
ladder_levels == 2
\* number of submit_ladder invocations in one behaviour
MaxCalls == 2
\* number of clock ticks (ms) in one behaviour
MaxTime == 1

Symbols == {"BTC"}
Sides == {"buy", "sell"}

\* ------------------------------------------------------------------------
\* Order and position tables (bot/state_store.py)
\* ------------------------------------------------------------------------
Order(oid, symbol, side, qty, px, status, ts_created, ts_updated, post_only, client_order_id, maker, fee, reject_reason) ==
  [oid |-> oid, symbol |-> symbol, side |-> side, qty |-> qty, px |-> px,
   status |-> status, ts_created |-> ts_created, ts_updated |-> ts_updated,
   post_only |-> post_only, client_order_id |-> client_order_id,
   maker |-> maker, fee |-> fee, reject_reason |-> reject_reason]

Position(symbol, side, qty, entry_px, sl_px, tp_px, leverage, ts_open, tp_order_id, sl_order_id) ==
  [symbol |-> symbol, side |-> side, qty |-> qty, entry_px |-> entry_px,
   sl_px |-> sl_px, tp_px |-> tp_px, leverage |-> leverage, ts_open |-> ts_open,
   tp_order_id |-> tp_order_id, sl_order_id |-> sl_order_id,
   reduce_only |-> TRUE, funding_pnl |-> RZero]

\* INSERT ... ON CONFLICT(oid) DO UPDATE: every column but ts_created is
\* overwritten when the primary key exists.
upsert_order(tbl, o) ==
  IF o.oid \in DOMAIN tbl
    THEN [tbl EXCEPT ![o.oid] = [o EXCEPT !.ts_created = tbl[o.oid].ts_created]]
    ELSE [k \in DOMAIN tbl \cup {o.oid} |-> IF k = o.oid THEN o ELSE tbl[k]]

\* Mutant: the lookup goes by the primary key instead of client_order_id.
get_order_by_oid(tbl, client_order_id) ==
  IF client_order_id \in DOMAIN tbl THEN tbl[client_order_id] ELSE None

\* SELECT * FROM orders WHERE client_order_id=? ... fetchone()
get_order_by_coid(tbl, client_order_id) ==
  LET hits == {k \in DOMAIN tbl : tbl[k].client_order_id = client_order_id}
  IN  IF hits = {} THEN None ELSE tbl[CHOOSE k \in hits : TRUE]

\* Mutant: the symbol filter is left out.
list_orders_all(tbl, symbol) == DOMAIN tbl

\* SELECT * FROM orders [WHERE symbol=?]: the filter is applied when the
\* symbol is given and not empty.
list_orders(tbl, symbol) ==
  IF symbol \in {"", NoneStr} THEN DOMAIN tbl
  ELSE {k \in DOMAIN tbl : tbl[k].symbol = symbol}

delete_order(tbl, oid) == [k \in DOMAIN tbl \ {oid} |-> tbl[k]]

update_order_status(tbl, oid, status, ts_updated) ==
  IF oid \in DOMAIN tbl
    THEN [tbl EXCEPT ![oid] = [@ EXCEPT !.status = status, !.ts_updated = ts_updated]]
    ELSE tbl

\* INSERT ... ON CONFLICT(symbol) DO UPDATE: every column is overwritten.
set_position(tbl, position) ==
  [k \in DOMAIN tbl \cup {position.symbol} |->
     IF k = position.symbol THEN position ELSE tbl[k]]

get_position(tbl, symbol) == IF symbol \in DOMAIN tbl THEN tbl[symbol] ELSE None

clear_position(tbl, symbol) == [k \in DOMAIN tbl \ {symbol} |-> tbl[k]]

\* Mutant: the connection is handed out whether or not the context is entered.
conn_error_lenient(has_conn) == NoneStr

\* StateStore.conn (lines 171-175): the error raised when there is no
\* connection, NoneStr when the connection is returned.
conn_error(has_conn) == IF ~has_conn THEN "RuntimeError" ELSE NoneStr

\* ------------------------------------------------------------------------
\* Notifier (bot/notifier.py)
\* ------------------------------------------------------------------------
\* TelegramNotifier.__init__: the attributes of an instance (token and chat_id
\* as whether they are set, failures for _failures), and marker for the
\* existence of the file at freeze_path.
TelegramNotifier(token, chat_id, max_failures) ==
  [token |-> token, chat_id |-> chat_id, max_failures |-> max_failures,
   failures |-> 0, marker |-> FALSE]

\* main() (run_cycle.py, lines 294-298): no token, no chat id.
MainNotifier == TelegramNotifier(FALSE, FALSE, 3)

\* Reading an attribute of the notifier from outside: None stands for the
\* AttributeError raised for a name the instance does not have.
notifier_attr(n, name) == IF name \in DOMAIN n THEN n[name] ELSE None

\* send_message: n after the call, and the returned flag; ok is whether the
\* request went through.
send_message(n, ok) ==
  IF ~n.token \/ ~n.chat_id THEN [notifier |-> n, ret |-> FALSE]
  ELSE IF ~ok
    THEN [notifier |-> [n EXCEPT !.failures = @ + 1,
                                  !.marker = @ \/ n.failures + 1 >= n.max_failures],
          ret |-> FALSE]
  ELSE [notifier |-> [n EXCEPT !.failures = 0], ret |-> TRUE]

\* ------------------------------------------------------------------------
\* Execution engine helpers (bot/execution.py)
\* ------------------------------------------------------------------------
hash_coid(seed) == <<"md5", seed>>

make_coid(symbol, side, level, ts) == hash_coid(<<symbol, side, level, ts>>)

\* _ladder_prices: level index k (0-based) is offset by 0.0005*price*(k+1).
ladder_price(side, price, level) ==
  LET offset == RMul(RMul(<<5, 10000>>, price), R(level + 1))
  IN  IF side = "buy" THEN RSub(price, offset) ELSE RAdd(price, offset)

ladder_prices(side, price) ==
  LET levels == IF ladder_levels > 1 THEN ladder_levels ELSE 1
  IN  [k \in 1..levels |-> ladder_price(side, price, k - 1)]

LadderLevel(level, price, qty, coid) ==
  [level |-> level, price |-> price, qty |-> qty, coid |-> coid]

\* Python truthiness of an optional number, and `a or b`.
Truthy(v) == v # None /\ v # RZero
OrElse(a, b) == IF Truthy(a) THEN a ELSE b

\* The market description the venue returns for a symbol, in base units; an
\* absent entry is None.  precision_* is the step 10^-precision.
MarketInfo(precision_price, precision_amount, price_min, amount_min, cost_min, tick_size, step_size) ==
  [precision_price |-> precision_price, precision_amount |-> precision_amount,
   price_min |-> price_min, amount_min |-> amount_min, cost_min |-> cost_min,
   tick_size |-> tick_size, step_size |-> step_size]

EmptyMarket == MarketInfo(None, None, None, None, None, None, None)

\* _load_symbol_meta: the fallbacks that derive a SymbolMeta from a market.
symbol_meta_from_market(market) ==
  LET px_step == OrElse(OrElse(OrElse(market.precision_price, market.price_min),
                               market.tick_size), R(DEFAULT_PX_STEP))
      qty_step == OrElse(OrElse(OrElse(market.precision_amount, market.amount_min),
                                market.step_size), R(DEFAULT_QTY_STEP))
      min_qty == OrElse(market.amount_min, RZero)
      min_notional == OrElse(market.cost_min, RZero)
  IN  SymbolMeta(px_step[1], qty_step[1], min_notional[1], min_qty[1])

\* order_params (bot/venue_adapter.py): the request parameters as a set of
\* <<key, value>> pairs.
order_params(venue, post_only, reduce_only, trigger) ==
  IF venue \in {"binance", "binanceusdm", "binancecoinm"} THEN
    LET is_futures == venue \in {"binanceusdm", "binancecoinm"} IN
    (IF post_only THEN {<<"postOnly", "true">>} ELSE {})
    \cup (IF post_only /\ is_futures THEN {<<"timeInForce", "GTX">>} ELSE {})
    \cup (IF reduce_only THEN {<<"reduceOnly", "true">>} ELSE {})
    \cup (IF trigger = "mark" THEN {<<"workingType", "MARK_PRICE">>}
          ELSE IF trigger = "index" THEN {<<"workingType", "INDEX_PRICE">>}
          ELSE {<<"workingType", "CONTRACT_PRICE">>})
  ELSE IF venue \in {"bybit", "bybitlinear"} THEN
    (IF post_only THEN {<<"postOnly", "true">>} ELSE {})
    \cup (IF reduce_only THEN {<<"reduce_only", "true">>} ELSE {})
    \cup (IF trigger = "index" THEN {<<"triggerBy", "IndexPrice">>}
          ELSE IF trigger = "last" THEN {<<"triggerBy", "LastPrice">>}
          ELSE {<<"triggerBy", "MarkPrice">>})
  ELSE IF venue = "okx" THEN
    (IF post_only THEN {<<"ordType", "post_only">>} ELSE {})
    \cup (IF reduce_only THEN {<<"reduceOnly", "true">>} ELSE {})
    \cup {<<"triggerPxType",
            IF trigger \in {"mark", "last", "index"} THEN trigger ELSE "mark">>}
  ELSE
    (IF post_only THEN {<<"postOnly", "true">>} ELSE {})
    \cup (IF reduce_only THEN {<<"reduceOnly", "true">>} ELSE {})

\* client.id of the venue client the engine is constructed with
venue_id == "binance"

\* A create_order response as the engine reads it.  id / clientOrderId are
\* None when the venue leaves them out; filled, average, price and fee are
\* rationals or None; info holds the three fields the engine looks at.
EmptyInfo == [takerOrMaker |-> NoneStr, maker |-> "absent", liquidity |-> "absent"]

Response(id, clientOrderId, status, filled, average, fee) ==
  [id |-> id, clientOrderId |-> clientOrderId, status |-> status,
   filled |-> filled, average |-> average, price |-> None, fee |-> fee,
   info_is_dict |-> FALSE, info |-> EmptyInfo, postOnly |-> "absent"]

\* submit_ladder lines 289-295: order id and normalised status.
response_oid(order, coid) ==
  IF order.id # None THEN order.id
  ELSE IF order.clientOrderId # None THEN order.clientOrderId
  ELSE coid

normalize_status(status_raw) ==
  IF status_raw \in {"closed", "filled"} THEN "closed"
  ELSE IF status_raw \in {"canceled", "cancelled", "expired", "rejected"} THEN "canceled"
  ELSE "open"

\* submit_ladder lines 302-313.  info is replaced by {} when it is not a
\* dict, so the test isinstance(info, dict) always succeeds and the postOnly
\* branch is never taken.
maker_flag(order) ==
  LET info == IF order.info_is_dict THEN order.info ELSE EmptyInfo
      info_is_dict == TRUE
  IN  IF info_is_dict THEN
        IF info.takerOrMaker # NoneStr THEN info.takerOrMaker = "maker"
        ELSE IF info.maker # "absent" THEN info.maker = "true"
        ELSE IF info.liquidity # "absent" THEN info.liquidity = "maker"
        ELSE TRUE
      ELSE IF order.postOnly # "absent" THEN order.postOnly = "true"
      ELSE TRUE

\* submit_ladder lines 332-336: the fill accounted from the create response.
filled_amount_when_closed(status, filled, level_qty) ==
  IF status = "closed" THEN OrElse(filled, level_qty) ELSE RZero

filled_amount_of(status, filled, level_qty) ==
  IF status = "closed" THEN OrElse(filled, level_qty)
  ELSE IF RLt(RZero, filled) THEN RMin(filled, level_qty)
  ELSE RZero

\* ------------------------------------------------------------------------
\* State
\* ------------------------------------------------------------------------
VARIABLES
  now,        \* wall clock, in ms
  frozen,     \* the freeze flag file exists
  orders,     \* orders table: oid -> Order
  positions,  \* positions table: symbol -> Position
  exch,       \* orders the exchange accepted, in order of arrival
  engine,     \* memory of the ExecutionEngine instance (the two caches)
  pc,         \* where the running submit_ladder call stands
  frame,      \* locals of the running submit_ladder call
  trace,      \* store lookups and venue calls of the latest submit_ladder call
  last,       \* the latest call made to the core and its result
  hist,       \* history: calls made so far
  store_conn, \* the StateStore holds a connection (its context is entered)
  notifier    \* the TelegramNotifier instance and its freeze marker file

vars ==
  <<now, frozen, orders, positions, exch, engine, pc, frame, trace, last, hist, store_conn,
    notifier>>

EmptyFn == [k \in {} |-> None]

FreshEngine == [leverage_configured |-> {}, symbol_meta |-> EmptyFn]

Init ==
  /\ now = 0
  /\ frozen = FALSE
  /\ orders = EmptyFn
  /\ positions = EmptyFn
  /\ exch = <<>>
  /\ engine = FreshEngine
  /\ pc = "idle"
  /\ frame = None
  /\ trace = <<>>
  /\ last = [op |-> "init"]
  /\ store_conn = TRUE
  /\ notifier = MainNotifier
  /\ hist = [ncalls |-> 0, calls |-> <<>>, creates |-> EmptyFn, resume |-> None,
            setup |-> EmptyFn]

BagAdd(bag, k) ==
  [x \in DOMAIN bag \cup {k} |->
     IF x = k THEN (IF k \in DOMAIN bag THEN bag[k] + 1 ELSE 1) ELSE bag[x]]

BagCount(bag, k) == IF k \in DOMAIN bag THEN bag[k] ELSE 0

\* time.time() advances
Tick ==
  /\ now < MaxTime
  /\ now' = now + 1
  /\ last' = [op |-> "tick"]
  /\ UNCHANGED <<frozen, orders, positions, exch, engine, pc, frame, trace, hist, store_conn>>
  /\ UNCHANGED notifier

\* ------------------------------------------------------------------------
\* submit_ladder (bot/execution.py lines 182-379), one action per step
\* ------------------------------------------------------------------------
LadderArgs(symbol, side, price, qty, stop_px, tp_px) ==
  [symbol |-> symbol, side |-> side, price |-> price, qty |-> qty,
   stop_px |-> stop_px, tp_px |-> tp_px]

\* _ensure_leverage and _load_symbol_meta: both memoize per symbol in the
\* engine instance; market is what the venue answers for the symbol.
ensure_leverage(eng, symbol) ==
  [eng EXCEPT !.leverage_configured = @ \cup {symbol}]

load_symbol_meta(eng, symbol, market) ==
  IF symbol \in DOMAIN eng.symbol_meta THEN eng
  ELSE [eng EXCEPT !.symbol_meta =
          [k \in DOMAIN @ \cup {symbol} |->
             IF k = symbol THEN symbol_meta_from_market(market) ELSE @[k]]]

\* The venue calls made by _ensure_leverage (lines 75-90) and
\* _load_symbol_meta (lines 92-129) when a call for symbol starts on engine
\* eng: none for what the instance has memoized.
setup_calls(eng, symbol) ==
  (IF symbol \in eng.leverage_configured THEN {}
   ELSE {<<"set_margin_mode", symbol>>, <<"set_leverage", symbol>>})
  \cup (IF symbol \in DOMAIN eng.symbol_meta THEN {} ELSE {<<"market", symbol>>})

\* The number of times each venue set-up call was made since the process
\* started, counted as 0, 1 or more than once (2).
count_setup(setup, calls) ==
  [k \in DOMAIN setup \cup calls |->
     IF k \notin calls THEN setup[k]
     ELSE IF k \in DOMAIN setup THEN 2 ELSE 1]

\* Lines 191-196: set-up of a call.  cycle identifies the signal being
\* executed and ts0 is the time of the first attempt to execute it; neither
\* is known to the program.
begin_ladder(eng0, a, market, cycle, ts0) ==
  LET eng == load_symbol_meta(ensure_leverage(eng0, a.symbol), a.symbol, market)
      prices == ladder_prices(a.side, a.price)
  IN
  /\ engine' = eng
  /\ frame' = [args |-> a, cycle |-> cycle, ts0 |-> ts0, meta |-> eng.symbol_meta[a.symbol],
               prices |-> prices, qty_per_order |-> RDiv(a.qty, R(Len(prices))),
               ts |-> now, idx |-> 1, levels |-> <<>>, order_ids |-> <<>>,
               filled_qty |-> RZero, filled_value |-> RZero,
               resp |-> None, positions0 |-> positions]
  /\ pc' = "sanitize"
  /\ trace' = <<>>

submit_ladder_call(ArgSet, MarketSet) ==
  /\ pc = "idle"
  /\ hist.ncalls < MaxCalls
  /\ \E a \in ArgSet, market \in MarketSet :
       /\ begin_ladder(engine, a, market, hist.ncalls + 1, now)
       /\ last' = [op |-> "submit_ladder", done |-> FALSE, args |-> a, ts |-> now]
       /\ hist' = [hist EXCEPT !.ncalls = @ + 1, !.resume = None,
                                !.calls = Append(@, [args |-> a, ts |-> now]),
                                !.setup = count_setup(@, setup_calls(engine, a.symbol))]
  /\ UNCHANGED <<now, frozen, orders, positions, exch, store_conn, notifier>>

\* Mutant: a level that fails sanitization is dropped without a record.
sanitize_level_silent(tbl, fr) ==
  LET idx == fr.idx - 1
      coid == make_coid(fr.args.symbol, fr.args.side, idx, fr.ts)
      san == sanitize_order(fr.meta, fr.args.side, fr.prices[fr.idx], fr.qty_per_order, TRUE)
  IN
  [orders |-> tbl,
   levels |-> IF san.error # NoneStr THEN fr.levels
              ELSE Append(fr.levels, LadderLevel(idx, san.px, san.qty, coid)),
   event |-> [ev |-> "sanitize", level |-> idx, error |-> san.error]]

\* Mutant: the accepted levels are collected in reverse.
sanitize_level_reversed(tbl, fr) ==
  LET idx == fr.idx - 1
      coid == make_coid(fr.args.symbol, fr.args.side, idx, fr.ts)
      san == sanitize_order(fr.meta, fr.args.side, fr.prices[fr.idx], fr.qty_per_order, TRUE)
  IN
  IF san.error # NoneStr
    THEN [orders |-> upsert_order(tbl,
                       Order(coid, fr.args.symbol, fr.args.side, san.qty, san.px,
                             "rejected", fr.ts, fr.ts, TRUE, coid, TRUE, RZero, san.error)),
          levels |-> fr.levels,
          event |-> [ev |-> "sanitize", level |-> idx, error |-> san.error]]
    ELSE [orders |-> tbl,
          levels |-> <<LadderLevel(idx, san.px, san.qty, coid)>> \o fr.levels,
          event |-> [ev |-> "sanitize", level |-> idx, error |-> NoneStr]]

\* Lines 197-229: one iteration of the sanitization loop.
sanitize_level(tbl, fr) ==
  LET idx == fr.idx - 1
      coid == make_coid(fr.args.symbol, fr.args.side, idx, fr.ts)
      san == sanitize_order(fr.meta, fr.args.side, fr.prices[fr.idx], fr.qty_per_order, TRUE)
  IN
  IF san.error # NoneStr
    THEN [orders |-> upsert_order(tbl,
                       Order(coid, fr.args.symbol, fr.args.side, san.qty, san.px,
                             "rejected", fr.ts, fr.ts, TRUE, coid, TRUE, RZero, san.error)),
          levels |-> fr.levels,
          event |-> [ev |-> "sanitize", level |-> idx, error |-> san.error]]
    ELSE [orders |-> tbl,
          levels |-> Append(fr.levels, LadderLevel(idx, san.px, san.qty, coid)),
          event |-> [ev |-> "sanitize", level |-> idx, error |-> NoneStr]]

ladder_sanitize ==
  /\ pc = "sanitize"
  /\ LET r == sanitize_level(orders, frame)
         lastLevel == frame.idx >= Len(frame.prices)
     IN
     /\ orders' = r.orders
     /\ frame' = [frame EXCEPT !.levels = r.levels,
                               !.idx = IF lastLevel THEN 1 ELSE @ + 1]
     /\ pc' = IF ~lastLevel THEN "sanitize"
              ELSE IF r.levels = <<>> THEN "finish" ELSE "submit"
     /\ trace' = Append(trace, r.event)
  /\ UNCHANGED <<now, frozen, positions, exch, engine, last, hist, store_conn, notifier>>

\* What the exchange remembers of an accepted order.  cycle and level tell
\* which signal and ladder level the order was sent for (level -1: protective).
ExchOrder(id, coid, symbol, side, type, amount, price, params, state, cycle, level) ==
  [id |-> id, clientOrderId |-> coid, symbol |-> symbol, side |-> side,
   type |-> type, amount |-> amount, price |-> price, params |-> params,
   state |-> state, cycle |-> cycle, level |-> level]

exch_state(status_raw) ==
  IF normalize_status(status_raw) = "closed" THEN "filled"
  ELSE IF normalize_status(status_raw) = "canceled" THEN "canceled"
  ELSE "live"

NextXid == <<"xid", Len(exch) + 1>>

next_pc_after_level(fr) == IF fr.idx < Len(fr.levels) THEN "submit" ELSE "finish"

\* Mutant: a level whose create_order raised is recorded as an open order.
submit_error_order_open(a, level, ts) ==
  Order(level.coid, a.symbol, a.side, level.qty, level.price, "open", ts, ts, TRUE,
        level.coid, TRUE, RZero, NoneStr)

\* Lines 271-287: the record written when create_order raised.
submit_error_order(a, level, ts) ==
  Order(level.coid, a.symbol, a.side, level.qty, level.price, "rejected", ts, ts, TRUE,
        level.coid, TRUE, RZero, "submit_error")

\* Lines 234-288: the idempotency lookup and the create_order call of one
\* level.  out is what the venue does with the request: out.raises, or the
\* response fields.
ladder_submit(Outcomes) ==
  /\ pc = "submit"
  /\ LET level == frame.levels[frame.idx]
         a == frame.args
         found == get_order_by_coid(orders, level.coid) # None
         lookup == [ev |-> "lookup", level |-> level.level, found |-> found,
                    stored |-> \E k \in DOMAIN orders : orders[k].client_order_id = level.coid]
         params == order_params(venue_id, cfg_post_only, FALSE, "mark")
                     \cup {<<"clientOrderId", level.coid>>}
     IN
     IF found THEN
       /\ trace' = Append(trace, lookup)
       /\ frame' = [frame EXCEPT !.idx = @ + 1]
       /\ pc' = next_pc_after_level(frame)
       /\ UNCHANGED <<orders, exch, hist>>
     ELSE
       \E out \in Outcomes :
         /\ hist' = [hist EXCEPT !.creates = BagAdd(@, level.coid)]
         /\ IF out.raises THEN
              /\ orders' = upsert_order(orders, submit_error_order(a, level, frame.ts))
              /\ trace' = trace \o <<lookup, [ev |-> "create", level |-> level.level,
                                              accepted |-> FALSE]>>
              /\ frame' = [frame EXCEPT !.idx = @ + 1]
              /\ pc' = next_pc_after_level(frame)
              /\ UNCHANGED exch
            ELSE
              LET filled == IF out.fill = "none" THEN None
                            ELSE IF out.fill = "zero" THEN RZero
                            ELSE IF out.fill = "half" THEN RDiv(level.qty, R(2))
                            ELSE IF out.fill = "full" THEN level.qty
                            ELSE RMul(level.qty, R(2))
                  resp == [Response(IF out.has_id THEN NextXid ELSE None,
                                    IF out.echo THEN level.coid ELSE None,
                                    out.status, filled, out.average, out.fee)
                             EXCEPT !.info_is_dict = out.info_is_dict,
                                    !.info = out.info, !.postOnly = out.postOnly]
              IN
              /\ exch' = Append(exch, ExchOrder(NextXid, level.coid, a.symbol, a.side,
                                                "limit", level.qty, level.price, params,
                                                exch_state(out.status), frame.cycle,
                                                level.level))
              /\ trace' = trace \o <<lookup, [ev |-> "create", level |-> level.level,
                                              accepted |-> TRUE]>>
              /\ frame' = [frame EXCEPT !.resp = resp]
              /\ pc' = "persist"
              /\ UNCHANGED orders
  /\ UNCHANGED <<now, frozen, positions, engine, last, store_conn, notifier>>

\* The exchange marks an order it knows and still holds live as canceled.
exch_cancel(ex, id) ==
  [i \in DOMAIN ex |->
     IF ex[i].id = id /\ ex[i].state = "live"
       THEN [ex[i] EXCEPT !.state = "canceled"] ELSE ex[i]]

exch_fill(ex, id) ==
  [i \in DOMAIN ex |->
     IF ex[i].id = id /\ ex[i].state = "live"
       THEN [ex[i] EXCEPT !.state = "filled"] ELSE ex[i]]

\* 1e-9 in quantity base units (lines 377 and 411)
QTY_FLOOR == <<1, 100000>>

\* Lines 289-374: the response of an accepted level is parsed and persisted,
\* its fill is accounted, and fetch_order is polled when no fill is reported.
\* f is what the poll does: f.kind is "absent" (the client has no
\* fetch_order), "raises" or "resp".
ladder_persist(FetchOutcomes) ==
  /\ pc = "persist"
  /\ LET level == frame.levels[frame.idx]
         a == frame.args
         order == frame.resp
         oid == response_oid(order, level.coid)
         status == normalize_status(order.status)
         filled == OrElse(order.filled, RZero)
         avg_price == OrElse(OrElse(order.average, order.price), level.price)
         fee == OrElse(order.fee, RZero)
         tbl1 == upsert_order(orders,
                   Order(oid, a.symbol, a.side, level.qty, level.price, status,
                         frame.ts, frame.ts, TRUE, level.coid, maker_flag(order),
                         fee, NoneStr))
         filled_amount == filled_amount_of(status, filled, level.qty)
         fr1 == [frame EXCEPT !.order_ids = Append(@, oid), !.resp = None,
                              !.idx = @ + 1]
         persisted == [ev |-> "persist", level |-> level.level, oid |-> oid,
                       status |-> status, filled |-> filled, maker |-> maker_flag(order),
                       resp |-> order]
     IN
     /\ pc' = next_pc_after_level(frame)
     /\ IF RLt(RZero, filled_amount) THEN
          /\ orders' = tbl1
          /\ frame' = [fr1 EXCEPT !.filled_qty = RAdd(@, filled_amount),
                                  !.filled_value = RAdd(@, RMul(filled_amount, avg_price))]
          /\ trace' = trace \o <<persisted, [ev |-> "fill", level |-> level.level,
                                             qty |-> filled_amount, src |-> "create"]>>
          /\ UNCHANGED exch
        ELSE
          \E f \in FetchOutcomes :
            IF f.kind = "absent" THEN
              /\ orders' = tbl1
              /\ frame' = fr1
              /\ trace' = Append(trace, persisted)
              /\ UNCHANGED exch
            ELSE IF f.kind = "raises" THEN
              /\ orders' = tbl1
              /\ frame' = fr1
              /\ trace' = trace \o <<persisted, [ev |-> "fetch", level |-> level.level,
                                                 ok |-> FALSE]>>
              /\ UNCHANGED exch
            ELSE
              LET f_filled0 == IF f.fill = "none" THEN None
                               ELSE IF f.fill = "zero" THEN RZero
                               ELSE IF f.fill = "half" THEN RDiv(level.qty, R(2))
                               ELSE IF f.fill = "full" THEN level.qty
                               ELSE RMul(level.qty, R(2))
                  f_filled == OrElse(f_filled0, RZero)
                  f_avg == OrElse(f.average, level.price)
                  fetched == [ev |-> "fetch", level |-> level.level, ok |-> TRUE]
              IN
              IF f.status \in {"closed", "filled"} \/ RLe(level.qty, f_filled) THEN
                LET fill_amount == RMin(RMax(f_filled, level.qty), level.qty) IN
                /\ orders' = update_order_status(tbl1, oid, "closed", now)
                /\ frame' = [fr1 EXCEPT !.filled_qty = RAdd(@, fill_amount),
                                        !.filled_value = RAdd(@, RMul(fill_amount, f_avg))]
                /\ exch' = exch_fill(exch, order.id)
                /\ trace' = trace \o <<persisted, fetched,
                                       [ev |-> "fill", level |-> level.level,
                                        qty |-> fill_amount, src |-> "fetch"]>>
              ELSE
                /\ orders' = tbl1
                /\ frame' = fr1
                /\ trace' = trace \o <<persisted, fetched>>
                /\ UNCHANGED exch
  /\ UNCHANGED <<now, frozen, positions, engine, last, hist, store_conn, notifier>>

\* ------------------------------------------------------------------------
\* Position and protective orders (bot/execution.py lines 382-586)
\* ------------------------------------------------------------------------
hedge_side_of(side) == IF side = "buy" THEN "sell" ELSE "buy"

\* cancel_existing (lines 480-494): the local record is deleted whether or
\* not the cancel call succeeded.  st carries the store, the exchange and the
\* events so far.
cancel_existing(st, order_id, ok) ==
  IF order_id = None THEN st
  ELSE [st EXCEPT !.orders = delete_order(@, order_id),
                  !.exch = IF ok THEN exch_cancel(@, order_id) ELSE @,
                  !.events = Append(@, [ev |-> "cancel", id |-> order_id, ok |-> ok])]

\* The id under which a protective order is stored (lines 512 and 554).
protective_id(out, xid, coid, kind, ts) ==
  IF out.has_id THEN xid
  ELSE IF out.echo THEN coid
  ELSE hash_coid(<<kind, ts>>)

\* Lines 504-542 and 546-585: the create_order call of a protective order and
\* its record.  A venue that echoes clientOrderId echoes the one it was sent.
place_protective(st, kind, symbol, hedge_side, qty, rpx, coid, xid, ts, out, cycle) ==
  IF out.raises
    THEN [st |-> [st EXCEPT !.events =
                    Append(@, [ev |-> "create_protective", kind |-> kind,
                               side |-> hedge_side, qty |-> qty, accepted |-> FALSE])],
          id |-> None]
    ELSE [st |-> [st EXCEPT
                    !.orders = upsert_order(@,
                      Order(protective_id(out, xid, coid, kind, ts), symbol, hedge_side,
                            qty, rpx, out.status, ts, ts, FALSE, coid, FALSE, RZero,
                            NoneStr)),
                    !.exch = Append(@,
                      ExchOrder(xid, coid, symbol, hedge_side,
                                IF kind = "sl" THEN "stop_market" ELSE "limit",
                                qty, rpx,
                                order_params(venue_id, FALSE, TRUE, "mark")
                                  \cup {<<"clientOrderId", coid>>}
                                  \cup (IF kind = "sl" THEN {<<"stopPrice", rpx>>} ELSE {}),
                                exch_state(out.status), cycle, -1)),
                    !.events =
                      Append(@, [ev |-> "create_protective", kind |-> kind,
                                 side |-> hedge_side, qty |-> qty, accepted |-> TRUE])],
          id |-> protective_id(out, xid, coid, kind, ts)]

\* Lines 501-503 (kind "sl") and 543-545 (kind "tp"): a protective order is
\* placed when its price is given and positive.
submit_protective(st, kind, symbol, hedge_side, qty, px, meta, ts, out, cycle) ==
  IF ~(Truthy(px) /\ RLt(RZero, px)) THEN [st |-> st, id |-> None]
  ELSE place_protective(st, kind, symbol, hedge_side, qty,
                        round_price_for_side(px, meta.price_increment, hedge_side),
                        hash_coid(<<symbol, kind, ts>>),
                        <<"xid", Len(st.exch) + 1>>, ts, out, cycle)

\* Lines 496-498
cancel_protective(st, existing, po) ==
  IF existing # None
    THEN cancel_existing(cancel_existing(st, existing.sl_order_id, po.cancel_sl_ok),
                         existing.tp_order_id, po.cancel_tp_ok)
    ELSE st

protective_result(sl, tp) == [st |-> tp.st, sl_id |-> sl.id, tp_id |-> tp.id]

\* Lines 543-586, sl being the outcome of the stop order
submit_take_profit(sl, symbol, hedge_side, qty, tp_px, meta, ts, po, cycle) ==
  protective_result(sl, submit_protective(sl.st, "tp", symbol, hedge_side, qty, tp_px,
                                          meta, ts, po.tp, cycle))

\* _submit_protective_orders with the quantity already floored (line 478).
\* po holds what the venue does with the two cancels and the two creates.
submit_protective_floored(st, symbol, hedge_side, qty, stop_px, tp_px, existing, meta, ts, po, cycle) ==
  submit_take_profit(
    submit_protective(cancel_protective(st, existing, po), "sl", symbol, hedge_side,
                      qty, stop_px, meta, ts, po.sl, cycle),
    symbol, hedge_side, qty, tp_px, meta, ts, po, cycle)

submit_protective_orders(st, symbol, side, qty0, stop_px, tp_px, existing, meta, ts, po, cycle) ==
  submit_protective_floored(st, symbol, hedge_side_of(side),
                            round_qty_floor(qty0, meta.quantity_increment),
                            stop_px, tp_px, existing, meta, ts, po, cycle)

\* Mutant: the entry price of the existing position is kept.
merge_position_keep_entry(existing, total_qty, avg_px, stop_px, tp_px) ==
  [existing EXCEPT !.qty = total_qty,
                   !.sl_px = IF Truthy(stop_px) THEN stop_px ELSE @,
                   !.tp_px = IF Truthy(tp_px) THEN tp_px ELSE @]

\* _establish_position lines 412-417: the existing position takes the new
\* totals, and the new stop / target when one is given.
merge_position(existing, total_qty, avg_px, stop_px, tp_px) ==
  [existing EXCEPT !.qty = total_qty, !.entry_px = avg_px,
                   !.sl_px = IF Truthy(stop_px) THEN stop_px ELSE @,
                   !.tp_px = IF Truthy(tp_px) THEN tp_px ELSE @]

\* Mutant: the merged position keeps the protective order ids it had.
store_merged_keep_ids(pos, symbol, merged, r) ==
  [st |-> [r.st EXCEPT !.events = Append(@, [ev |-> "set_position", symbol |-> symbol,
                                             merged |-> TRUE])],
   positions |-> [pos EXCEPT ![symbol] = merged]]

\* Mutant: the row of the symbol is cleared instead of updated.
store_merged_cleared(pos, symbol, merged, r) ==
  [st |-> [r.st EXCEPT !.events = Append(@, [ev |-> "set_position", symbol |-> symbol,
                                             merged |-> TRUE])],
   positions |-> [k \in DOMAIN pos \ {symbol} |-> pos[k]]]

\* Lines 426-430; r is what _submit_protective_orders returned.
store_merged(pos, symbol, merged, r) ==
  [st |-> [r.st EXCEPT !.events = Append(@, [ev |-> "set_position", symbol |-> symbol,
                                             merged |-> TRUE])],
   positions |-> [pos EXCEPT ![symbol] =
                    [merged EXCEPT !.sl_order_id = IF r.sl_id # None THEN r.sl_id ELSE @,
                                   !.tp_order_id = IF r.tp_id # None THEN r.tp_id ELSE @]]]

\* Mutant: the replacement uses the prices of the call alone.
protect_merged_passed_only(st, pos, symbol, side, merged, stop_px, tp_px, meta, ts, po, cycle) ==
  store_merged(pos, symbol, merged,
               submit_protective_orders(st, symbol, side, merged.qty, stop_px, tp_px,
                                        merged, meta, ts, po, cycle))

\* Lines 418-430
protect_merged(st, pos, symbol, side, merged, stop_px, tp_px, meta, ts, po, cycle) ==
  store_merged(pos, symbol, merged,
               submit_protective_orders(st, symbol, side, merged.qty,
                                        OrElse(merged.sl_px, stop_px),
                                        OrElse(merged.tp_px, tp_px),
                                        merged, meta, ts, po, cycle))

\* Lines 408-411
add_to_position(st, pos, symbol, side, qty, entry_px, stop_px, tp_px, total_qty, meta, ts, po, cycle) ==
  protect_merged(st, pos, symbol, side,
                 merge_position(pos[symbol], total_qty,
                                RDiv(RAdd(RMul(pos[symbol].entry_px, pos[symbol].qty),
                                          RMul(entry_px, qty)),
                                     RMax(total_qty, QTY_FLOOR)),
                                stop_px, tp_px),
                 stop_px, tp_px, meta, ts, po, cycle)

\* Lines 433-457; r is what _submit_protective_orders returned.
store_opened(pos, symbol, side, qty, entry_px, stop_px, tp_px, ts, r) ==
  [st |-> [r.st EXCEPT !.events = Append(@, [ev |-> "set_position", symbol |-> symbol,
                                             merged |-> FALSE])],
   positions |-> [k \in DOMAIN pos \cup {symbol} |->
                    IF k = symbol
                      THEN Position(symbol, side, qty, entry_px, OrElse(stop_px, RZero),
                                    OrElse(tp_px, RZero), cfg_leverage, ts,
                                    r.tp_id, r.sl_id)
                      ELSE pos[k]]]

\* Lines 406-457, on the rounded values
establish_rounded(st, pos, symbol, side, qty, entry_px, stop_px, tp_px, meta, ts, po, cycle) ==
  IF symbol \in DOMAIN pos
    THEN add_to_position(st, pos, symbol, side, qty, entry_px, stop_px, tp_px,
                         round_qty_floor(RAdd(pos[symbol].qty, qty),
                                         meta.quantity_increment),
                         meta, ts, po, cycle)
    ELSE store_opened(pos, symbol, side, qty, entry_px, stop_px, tp_px, ts,
                      submit_protective_orders(st, symbol, side, qty, stop_px, tp_px,
                                               None, meta, ts, po, cycle))

\* _establish_position
establish_position(st, pos, symbol, side, qty0, entry0, stop0, tp0, meta, ts, po, cycle) ==
  establish_rounded(st, pos, symbol, side,
    round_qty_floor(qty0, meta.quantity_increment),
    round_to_step(entry0, meta.price_increment),
    IF Truthy(stop0)
      THEN round_price_for_side(stop0, meta.price_increment, hedge_side_of(side))
      ELSE stop0,
    IF Truthy(tp0)
      THEN round_price_for_side(tp0, meta.price_increment, hedge_side_of(side))
      ELSE tp0,
    meta, ts, po, cycle)

\* Line 378: r is the outcome of _establish_position.
position_established(r) ==
  /\ orders' = r.st.orders
  /\ exch' = r.st.exch
  /\ positions' = r.positions
  /\ trace' = trace \o r.st.events

\* Mutant: the position is written as soon as the venue accepted an order.
has_fill_or_order(fr) == fr.order_ids # <<>>

\* Line 376
has_fill(fr) == RLt(RZero, fr.filled_qty)

\* Lines 376-379: the position is written when something filled, and the
\* call returns the ids of the orders it placed.
ladder_finish(ProtOutcomes) ==
  /\ pc = "finish"
  /\ IF has_fill(frame) THEN
       \E po \in ProtOutcomes :
         position_established(
           establish_position([orders |-> orders, exch |-> exch, events |-> <<>>],
                              positions, frame.args.symbol, frame.args.side,
                              frame.filled_qty,
                              RDiv(frame.filled_value, RMax(frame.filled_qty, QTY_FLOOR)),
                              frame.args.stop_px, frame.args.tp_px, frame.meta, now, po,
                              frame.cycle))
     ELSE UNCHANGED <<orders, exch, positions, trace>>
  /\ last' = [op |-> "submit_ladder", done |-> TRUE, args |-> frame.args, ts |-> frame.ts,
              ret |-> frame.order_ids, filled_qty |-> frame.filled_qty,
              filled_value |-> frame.filled_value, positions0 |-> frame.positions0]
  /\ pc' = "idle"
  /\ frame' = None
  /\ UNCHANGED <<now, frozen, engine, hist, store_conn, notifier>>

\* ------------------------------------------------------------------------
\* expire_orders and cancel_all (bot/execution.py lines 137-179)
\* ------------------------------------------------------------------------
\* Mutant: orders that are not post-only are expired as well.
expire_candidates_any_kind(tbl, symbol, ttl_ms, now_ms) ==
  IF ttl_ms <= 0 THEN {}
  ELSE {k \in list_orders(tbl, symbol) : ~(now_ms - tbl[k].ts_created < ttl_ms)}

\* Lines 138-147: the orders expire_orders tries to cancel.
expire_candidates(tbl, symbol, ttl_ms, now_ms) ==
  IF ttl_ms <= 0 THEN {}
  ELSE {k \in list_orders(tbl, symbol) :
          tbl[k].post_only /\ ~(now_ms - tbl[k].ts_created < ttl_ms)}

\* The rows of a SELECT as a list; the store fixes the order.
RECURSIVE rows_of(_)
rows_of(S) ==
  IF S = {} THEN <<>>
  ELSE LET k == CHOOSE x \in S : TRUE IN <<k>> \o rows_of(S \ {k})

\* Mutant: the record is deleted whether or not the cancel returned.
cancel_step_always_delete(st, order_id, ok) ==
  [st EXCEPT !.attempts = Append(@, order_id),
             !.orders = delete_order(@, order_id),
             !.exch = IF ok THEN exch_cancel(@, order_id) ELSE @,
             !.expired = @ + 1]

\* Lines 148-161 and 166-171: one iteration of the cancel loop.  ok tells
\* whether client.cancel_order returned; when it raised, the loop continues
\* with the next order and the record stays.
cancel_step(st, order_id, ok) ==
  IF ok
    THEN [st EXCEPT !.attempts = Append(@, order_id),
                    !.orders = delete_order(@, order_id),
                    !.exch = exch_cancel(@, order_id),
                    !.expired = @ + 1]
    ELSE [st EXCEPT !.attempts = Append(@, order_id)]

\* The loop over the listed orders; fails are the orders whose cancel_order
\* raises.
RECURSIVE cancel_loop(_, _, _)
cancel_loop(st, todo, fails) ==
  IF todo = <<>> THEN st
  ELSE cancel_loop(cancel_step(st, Head(todo), Head(todo) \notin fails), Tail(todo), fails)

cancel_each(tbl, ex, cands, fails) ==
  cancel_loop([orders |-> tbl, exch |-> ex, attempts |-> <<>>, expired |-> 0],
              rows_of(cands), fails)

\* now_arg = 0 stands for an absent now_ms as well (now_ms or time.time()).
expire_orders(symbol, ttl_ms, now_arg) ==
  /\ pc = "idle"
  /\ LET now_ms == IF now_arg = 0 THEN now ELSE now_arg
         cands == expire_candidates(orders, symbol, ttl_ms, now_ms)
     IN
     \E fails \in SUBSET cands :
       LET r == cancel_each(orders, exch, cands, fails) IN
       /\ orders' = r.orders
       /\ exch' = r.exch
       /\ last' = [op |-> "expire_orders", symbol |-> symbol, ttl_ms |-> ttl_ms,
                   now_ms |-> now_ms, cancels |-> cands, fails |-> fails,
                   attempts |-> r.attempts, ret |-> r.expired, before |-> orders]
  /\ UNCHANGED <<now, frozen, positions, engine, pc, frame, trace, hist, store_conn, notifier>>

cancel_all(symbol) ==
  /\ pc = "idle"
  /\ LET cands == list_orders(orders, symbol) IN
     \E fails \in SUBSET cands :
       LET r == cancel_each(orders, exch, cands, fails) IN
       /\ orders' = r.orders
       /\ exch' = r.exch
       /\ last' = [op |-> "cancel_all", symbol |-> symbol, cancels |-> cands,
                   fails |-> fails, attempts |-> r.attempts, before |-> orders]
  /\ UNCHANGED <<now, frozen, positions, engine, pc, frame, trace, hist, store_conn, notifier>>

\* ------------------------------------------------------------------------
\* Process stop and restart
\* ------------------------------------------------------------------------
\* The process stops wherever it stands: engine memory and the locals of a
\* running call are lost, the store, the freeze file and the exchange stay.
\* The signal of an interrupted submit_ladder is kept for the re-run.
crash ==
  /\ pc' = "idle"
  /\ frame' = None
  /\ engine' = FreshEngine
  /\ hist' = [hist EXCEPT !.resume =
                IF pc # "idle"
                  THEN [args |-> frame.args, cycle |-> frame.cycle, ts0 |-> frame.ts0]
                  ELSE @,
                           !.setup = EmptyFn]
  /\ last' = [op |-> "restart", interrupted |-> pc # "idle"]
  /\ UNCHANGED <<now, frozen, orders, positions, exch, trace, store_conn, notifier>>

\* After the restart submit_ladder is run again for the interrupted signal.
resume_ladder(MarketSet) ==
  /\ pc = "idle"
  /\ hist.resume # None
  /\ hist.ncalls < MaxCalls
  /\ \E market \in MarketSet :
       begin_ladder(engine, hist.resume.args, market, hist.resume.cycle, hist.resume.ts0)
  /\ last' = [op |-> "submit_ladder", done |-> FALSE, args |-> hist.resume.args,
              ts |-> now]
  /\ hist' = [hist EXCEPT !.ncalls = @ + 1, !.resume = None,
                           !.calls = Append(@, [args |-> hist.resume.args, ts |-> now]),
                           !.setup = count_setup(@, setup_calls(engine, hist.resume.args.symbol))]
  /\ UNCHANGED <<now, frozen, orders, positions, exch, store_conn, notifier>>

\* ------------------------------------------------------------------------
\* One orchestrator cycle (bot/run_cycle.py, run_once)
\* ------------------------------------------------------------------------
\* What a cycle gets from outside: the signal of the policy (side NoneStr when
\* there is none), nav and daily pnl, the funding estimate (None when the
\* venue gives none), notifier.failure_streak (None when the notifier object
\* has no such attribute) and the free quote balance (None when unknown).
CycleInput(side, price, stop_px, tp_px, nav, daily_pnl_pct, funding_annualized, failure_streak, balance) ==
  [side |-> side, price |-> price, stop_px |-> stop_px, tp_px |-> tp_px, nav |-> nav,
   daily_pnl_pct |-> daily_pnl_pct, funding_annualized |-> funding_annualized,
   failure_streak |-> failure_streak, balance |-> balance]

\* getattr(notifier, "max_failures_allowed", 3)
NOTIFY_THRESHOLD_DEFAULT == 3

\* _market_constraints
market_constraints(market) ==
  MarketConstraints(OrElse(market.amount_min, RZero)[1], OrElse(market.cost_min, RZero)[1])

\* Lines 220-234: the arguments run_once passes to guard_signal.
cycle_guard_args(c, market, symbol_meta, open_positions) ==
  GuardArgs(c.nav, c.price, c.stop_px, market_constraints(market), c.daily_pnl_pct,
            c.funding_annualized, c.failure_streak, R(NOTIFY_THRESHOLD_DEFAULT),
            symbol_meta, c.side, OrElse(c.balance, c.nav), cfg_leverage, open_positions)

\* Lines 235-254: r is what guard_signal returned.
cycle_guarded(c, market, eng, open_positions, exch_len, r) ==
  /\ frozen' = r.frozen
  /\ IF r.qty = None THEN
       /\ engine' = eng
       /\ last' = [op |-> "run_once", open_positions |-> open_positions,
                   exch_len |-> exch_len, reason |-> r.reason,
                   status |-> IF r.reason = "max_positions" THEN "max_position"
                              ELSE "risk_blocked"]
       /\ hist' = [hist EXCEPT !.setup = count_setup(@, {<<"market", cfg_symbol>>})]
       /\ UNCHANGED <<pc, frame, trace>>
     ELSE
       /\ begin_ladder(eng, LadderArgs(cfg_symbol, c.side, c.price, r.qty, c.stop_px, c.tp_px),
                       market, hist.ncalls + 1, now)
       /\ last' = [op |-> "run_once", open_positions |-> open_positions,
                   exch_len |-> exch_len, reason |-> NoneStr, status |-> "submitting"]
       /\ hist' = [hist EXCEPT !.ncalls = @ + 1, !.resume = None,
                     !.calls = Append(@, [args |-> LadderArgs(cfg_symbol, c.side, c.price,
                                                             r.qty, c.stop_px, c.tp_px),
                                          ts |-> now]),
                     !.setup = count_setup(@, setup_calls(FreshEngine, cfg_symbol))]

\* Lines 184-234: a new engine is built, stale orders are expired, the symbol
\* description is loaded and the guard is asked.  notifier.failure_streak
\* raises AttributeError when the notifier has no such attribute.
cycle_trade(c, market, eng, open_positions) ==
  /\ \E fails \in SUBSET expire_candidates(orders, cfg_symbol, cfg_ttl_ms, now) :
       /\ orders' = cancel_each(orders, exch,
                      expire_candidates(orders, cfg_symbol, cfg_ttl_ms, now), fails).orders
       /\ exch' = cancel_each(orders, exch,
                    expire_candidates(orders, cfg_symbol, cfg_ttl_ms, now), fails).exch
  /\ IF c.failure_streak = None THEN
       /\ engine' = eng
       /\ last' = [op |-> "run_once", open_positions |-> open_positions,
                   exch_len |-> Len(exch), reason |-> NoneStr, status |-> "error"]
       /\ hist' = [hist EXCEPT !.setup = count_setup(@, {<<"market", cfg_symbol>>})]
       /\ UNCHANGED <<frozen, pc, frame, trace>>
     ELSE
       cycle_guarded(c, market, eng, open_positions, Len(exch),
                     guard_signal(frozen, cycle_guard_args(c, market,
                                    eng.symbol_meta[cfg_symbol], open_positions)))

run_once(CycleInputs, MarketSet) ==
  /\ pc = "idle"
  /\ hist.ncalls < MaxCalls
  /\ \E c \in CycleInputs, market \in MarketSet :
       IF c.side = NoneStr THEN
         /\ last' = [op |-> "run_once", open_positions |-> 0, exch_len |-> Len(exch),
                     reason |-> NoneStr, status |-> "no_signal"]
         /\ UNCHANGED <<frozen, orders, exch, engine, pc, frame, trace, hist>>
       ELSE
         cycle_trade(c, market, load_symbol_meta(FreshEngine, cfg_symbol, market),
                     IF cfg_symbol \in DOMAIN positions THEN 1 ELSE 0)
  /\ UNCHANGED <<now, positions, store_conn, notifier>>

\* ------------------------------------------------------------------------
\* Inputs of the execution engine: signals, markets and venue answers
\* ------------------------------------------------------------------------
\* What create_order does with a request.
CreateOutcome(raises, has_id, echo, status, fill) ==
  [raises |-> raises, has_id |-> has_id, echo |-> echo, status |-> status,
   fill |-> fill, average |-> None, fee |-> None, info_is_dict |-> FALSE,
   info |-> EmptyInfo, postOnly |-> "absent"]

CreateRaises == CreateOutcome(TRUE, FALSE, FALSE, "open", "none")
CreateOpen == CreateOutcome(FALSE, TRUE, TRUE, "open", "none")
CreateClosed == CreateOutcome(FALSE, TRUE, TRUE, "closed", "full")

\* The exchange assigns an id to every order it accepts.
CreateOutcomes == {CreateRaises, CreateOpen, CreateClosed}

FetchAbsent == [kind |-> "absent"]
FetchOpen == [kind |-> "resp", status |-> "open", fill |-> "zero", average |-> None]
FetchClosed == [kind |-> "resp", status |-> "closed", fill |-> "full", average |-> None]

FetchOutcomes == {FetchAbsent, FetchOpen}

ProtOk == [raises |-> FALSE, has_id |-> TRUE, echo |-> TRUE, status |-> "open"]

ProtOutcomes ==
  {[cancel_sl_ok |-> TRUE, cancel_tp_ok |-> TRUE, sl |-> ProtOk, tp |-> ProtOk]}

\* A level that is filled in part when it is placed.
CreatePartial == CreateOutcome(FALSE, TRUE, TRUE, "open", "half")

ProtRaises == [raises |-> TRUE, has_id |-> FALSE, echo |-> FALSE, status |-> "open"]

\* What the venue does with the two cancels and the two creates of a
\* protective-order replacement: all succeed, or one of them raises.
ProtOutcome(cancel_sl_ok, cancel_tp_ok, sl, tp) ==
  [cancel_sl_ok |-> cancel_sl_ok, cancel_tp_ok |-> cancel_tp_ok, sl |-> sl, tp |-> tp]

ProtFailures ==
  {ProtOutcome(TRUE, TRUE, ProtOk, ProtOk), ProtOutcome(FALSE, TRUE, ProtOk, ProtOk),
   ProtOutcome(TRUE, FALSE, ProtOk, ProtOk), ProtOutcome(TRUE, TRUE, ProtRaises, ProtOk),
   ProtOutcome(TRUE, TRUE, ProtOk, ProtRaises)}

\* A market that publishes only a minimum cost (1e-3 of the quote currency).
CostMarket == MarketInfo(None, None, None, None, R(1000), None, None)

Markets == {EmptyMarket, CostMarket}

\* Signals: a regular one, one whose per-level quantity falls below the
\* quantity step, and one whose price makes the lower ladder levels round to 0.
SignalRegular == LadderArgs("BTC", "buy", R(20000), R(600), R(19000), R(22000))
SignalDust == LadderArgs("BTC", "buy", R(20000), R(1), R(19000), R(22000))
SignalPenny == LadderArgs("BTC", "buy", <<10007, 10000>>, R(600), None, None)

LadderInputs == {SignalRegular, SignalDust, SignalPenny}

NextLadder ==
  \/ submit_ladder_call(LadderInputs, Markets)
  \/ ladder_sanitize
  \/ ladder_submit(CreateOutcomes)
  \/ ladder_persist(FetchOutcomes)
  \/ ladder_finish(ProtOutcomes)
  \/ Tick

SpecLadder == Init /\ [][NextLadder]_vars

\* The engine with process stops: an interrupted call is run again after the
\* restart.
NextCrash ==
  \/ submit_ladder_call({SignalRegular}, {EmptyMarket})
  \/ ladder_sanitize
  \/ ladder_submit(CreateOutcomes)
  \/ ladder_persist({FetchAbsent})
  \/ ladder_finish(ProtOutcomes)
  \/ crash
  \/ resume_ladder({EmptyMarket})
  \/ Tick

SpecCrash == Init /\ [][NextCrash]_vars

\* The three public operations of the engine on one store.
NextEngine ==
  \/ submit_ladder_call({SignalRegular, SignalDust}, {EmptyMarket})
  \/ ladder_sanitize
  \/ ladder_submit(CreateOutcomes)
  \/ ladder_persist({FetchAbsent})
  \/ ladder_finish(ProtOutcomes)
  \/ \E ttl_ms \in {0, 1} : expire_orders("BTC", ttl_ms, 0)
  \/ cancel_all("BTC")
  \/ Tick

SpecEngine == Init /\ [][NextEngine]_vars

\* Ladders whose fills open and then enlarge a position, with protective
\* orders whose cancel or create calls may raise.
NextProtect ==
  \/ submit_ladder_call({SignalRegular}, {EmptyMarket})
  \/ ladder_sanitize
  \/ ladder_submit({CreateRaises, CreateOpen, CreateClosed, CreatePartial})
  \/ ladder_persist({FetchAbsent})
  \/ ladder_finish(ProtFailures)
  \/ Tick

SpecProtect == Init /\ [][NextProtect]_vars

\* Ladders on one symbol and the expiry of their resting orders.
NextExpire ==
  \/ submit_ladder_call({SignalRegular}, {EmptyMarket})
  \/ ladder_sanitize
  \/ ladder_submit(CreateOutcomes)
  \/ ladder_persist({FetchAbsent})
  \/ ladder_finish(ProtOutcomes)
  \/ \E ttl_ms \in {0, 1} : expire_orders("BTC", ttl_ms, 0)
  \/ Tick

SpecExpire == Init /\ [][NextExpire]_vars

\* A signal for a second symbol.
SignalEth == LadderArgs("ETH", "buy", R(20000), R(600), R(19000), R(22000))

\* Filled ladders on two symbols, with their protective orders, and
\* cancel_all for either symbol.
NextCancel ==
  \/ submit_ladder_call({SignalRegular, SignalEth}, {EmptyMarket})
  \/ ladder_sanitize
  \/ ladder_submit({CreateClosed})
  \/ ladder_persist({FetchAbsent})
  \/ ladder_finish(ProtOutcomes)
  \/ \E symbol \in {"BTC", "ETH"} : cancel_all(symbol)

SpecCancel == Init /\ [][NextCancel]_vars

\* Filled ladders on one symbol with expire_orders and cancel_all in between.
NextCore ==
  \/ submit_ladder_call({SignalRegular}, {EmptyMarket})
  \/ ladder_sanitize
  \/ ladder_submit({CreateClosed})
  \/ ladder_persist({FetchAbsent})
  \/ ladder_finish(ProtOutcomes)
  \/ expire_orders("BTC", 1, 0)
  \/ cancel_all("BTC")
  \/ Tick

SpecCore == Init /\ [][NextCore]_vars

\* A signal to sell, with its stop above and its target below the price.
SignalSell == LadderArgs("BTC", "sell", R(20000), R(600), R(21000), R(18000))

\* Ladders of either side on one symbol.
NextHedge ==
  \/ submit_ladder_call({SignalRegular, SignalSell}, {EmptyMarket})
  \/ ladder_sanitize
  \/ ladder_submit({CreateOpen, CreateClosed})
  \/ ladder_persist({FetchAbsent})
  \/ ladder_finish(ProtOutcomes)
  \/ Tick

SpecHedge == Init /\ [][NextHedge]_vars


\* ------------------------------------------------------------------------
\* Risk guard calls (bot/risk_guard.py)
\* ------------------------------------------------------------------------
guard_signal_call(ArgSet) ==
  /\ pc = "idle"
  /\ \E a \in ArgSet :
       LET r == guard_signal(frozen, a) IN
       /\ frozen' = r.frozen
       /\ last' = [op |-> "guard_signal", args |-> a, was_frozen |-> frozen,
                   ret |-> [qty |-> r.qty, reason |-> r.reason]]
  /\ UNCHANGED <<now, orders, positions, exch, engine, pc, frame, trace, hist, store_conn>>
  /\ UNCHANGED notifier

should_freeze_call(ArgSet) ==
  /\ pc = "idle"
  /\ \E a \in ArgSet :
       last' = [op |-> "should_freeze", args |-> a, was_frozen |-> frozen,
                ret |-> should_freeze(a.daily_pnl_pct, a.funding_annualized,
                                      a.notify_fail_streak, a.notify_threshold)]
  /\ UNCHANGED <<now, frozen, orders, positions, exch, engine, pc, frame, trace, hist, store_conn>>
  /\ UNCHANGED notifier

set_frozen_call ==
  /\ pc = "idle"
  /\ \E value \in BOOLEAN :
       /\ frozen' = set_frozen(frozen, value)
       /\ last' = [op |-> "set_frozen", args |-> value, was_frozen |-> frozen]
  /\ UNCHANGED <<now, orders, positions, exch, engine, pc, frame, trace, hist, store_conn>>
  /\ UNCHANGED notifier

\* ------------------------------------------------------------------------
\* Risk guard on its own: inputs and specification
\* ------------------------------------------------------------------------
RiskMeta == SymbolMeta(5, 2, 10000, 4)

RiskGuardInputs ==
  {GuardArgs(nav, R(2000), stop_px, MarketConstraints(4, 10), daily, funding,
             R(3), threshold, meta, "buy", avail, None, open_positions) :
     nav \in {RZero, R(100000)},
     stop_px \in {R(1900), R(1999)},
     daily \in {<<-3, 100>>, <<-2, 100>>},
     funding \in {None, R(-1)},
     threshold \in {None, R(3)},
     meta \in {None, RiskMeta},
     avail \in {None, R(2000), R(100000)},
     open_positions \in {0, 1}}

FreezeInputs ==
  {[daily_pnl_pct |-> daily, funding_annualized |-> funding,
    notify_fail_streak |-> streak, notify_threshold |-> threshold] :
     daily \in {<<-5, 100>>, <<-3, 100>>, <<-2, 100>>, RZero},
     funding \in {None, R(-1), <<-8, 10>>, RZero, <<8, 10>>, R(1)},
     streak \in {R(0), R(2), R(3), R(4)},
     threshold \in {None, R(3)}}

NextRisk ==
  \/ guard_signal_call(RiskGuardInputs)
  \/ should_freeze_call(FreezeInputs)
  \/ set_frozen_call
  \/ crash
  \/ Tick

SpecRisk == Init /\ [][NextRisk]_vars

\* The guard with, in addition, a symbol whose quantity step is larger than
\* any quantity the risk budget allows, so that sanitization fails.
CoarseMeta == SymbolMeta(5, 1000, 10000, 4)

FreezeGuardInputs ==
  RiskGuardInputs \cup
    {[a EXCEPT !.symbol_meta = CoarseMeta] : a \in {b \in RiskGuardInputs : b.symbol_meta # None}}

NextFreeze ==
  \/ guard_signal_call(FreezeGuardInputs)
  \/ should_freeze_call(FreezeInputs)
  \/ set_frozen_call

SpecFreeze == Init /\ [][NextFreeze]_vars

\* ------------------------------------------------------------------------
\* Market guard on its own: calls, inputs and specification
\* ------------------------------------------------------------------------
\* The arguments of a call to a function are drawn when the behaviour starts
\* (last.op = "input") and the call is then made with them; nothing else has
\* happened yet.
InitWith(Inputs) ==
  /\ last \in Inputs
  /\ store_conn = TRUE
  /\ notifier = MainNotifier
  /\ now = 0
  /\ frozen = FALSE
  /\ orders = EmptyFn
  /\ positions = EmptyFn
  /\ exch = <<>>
  /\ engine = FreshEngine
  /\ pc = "idle"
  /\ frame = None
  /\ trace = <<>>
  /\ hist = [ncalls |-> 0, calls |-> <<>>, creates |-> EmptyFn, resume |-> None,
             setup |-> EmptyFn]

\* sanitize_order is called, and called again with the pair it returned.
sanitize_order_call ==
  /\ pc = "idle"
  /\ last.op = "input"
  /\ last.call = "sanitize_order"
  /\ last' = [op |-> "sanitize_order", meta |-> last.meta, side |-> last.side,
              price |-> last.price, qty |-> last.qty, auto_bump |-> last.auto_bump,
              ret |-> sanitize_order(last.meta, last.side, last.price, last.qty,
                                     last.auto_bump),
              again |-> sanitize_order(last.meta, last.side,
                          sanitize_order(last.meta, last.side, last.price, last.qty,
                                         last.auto_bump).px,
                          sanitize_order(last.meta, last.side, last.price, last.qty,
                                         last.auto_bump).qty,
                          last.auto_bump)]
  /\ UNCHANGED <<now, frozen, orders, positions, exch, engine, pc, frame, trace, hist, store_conn>>
  /\ UNCHANGED notifier

round_price_for_side_call ==
  /\ pc = "idle"
  /\ last.op = "input"
  /\ last.call = "round_price_for_side"
  /\ last' = [op |-> "round_price_for_side", value |-> last.value, step |-> last.step,
              side |-> last.side,
              ret |-> round_price_for_side(last.value, last.step, last.side)]
  /\ UNCHANGED <<now, frozen, orders, positions, exch, engine, pc, frame, trace, hist, store_conn>>
  /\ UNCHANGED notifier

round_qty_floor_call ==
  /\ pc = "idle"
  /\ last.op = "input"
  /\ last.call = "round_qty_floor"
  /\ last' = [op |-> "round_qty_floor", value |-> last.value, step |-> last.step,
              ret |-> round_qty_floor(last.value, last.step)]
  /\ UNCHANGED <<now, frozen, orders, positions, exch, engine, pc, frame, trace, hist, store_conn>>
  /\ UNCHANGED notifier

\* Symbol descriptions with positive increments; a venue without limits gives
\* min_notional 0 and min_qty 0 (execution.py, lines 118-120), and min_qty 3
\* is not a multiple of the quantity increment 2.
MarketMetas ==
  {[SymbolMeta(pinc, qinc, mnot, mqty) EXCEPT !.max_qty = max_qty] :
     pinc \in {1, 2}, qinc \in {1, 2}, mnot \in {0, 6}, mqty \in {0, 3},
     max_qty \in {None, R(4)}}

\* Prices and quantities in halves of a base unit, from -1 to 4.
MarketValues == {Rat(k, 2) : k \in -2 .. 8}

MarketInputs ==
  {[op |-> "input", call |-> "sanitize_order", meta |-> symbol_meta, side |-> side,
    price |-> price, qty |-> qty, auto_bump |-> auto_bump_min_notional] :
     symbol_meta \in MarketMetas, side \in {"buy", "sell", "hold"},
     price \in MarketValues, qty \in MarketValues,
     auto_bump_min_notional \in BOOLEAN}
  \cup {[op |-> "input", call |-> "round_price_for_side", value |-> price,
          step |-> step, side |-> side] :
          price \in MarketValues, step \in {1, 2, 3}, side \in {"buy", "sell", "hold"}}
  \cup {[op |-> "input", call |-> "round_qty_floor", value |-> qty, step |-> step] :
          qty \in MarketValues, step \in {1, 2, 3}}

InitMarket == InitWith(MarketInputs)

NextMarket ==
  \/ sanitize_order_call
  \/ round_price_for_side_call
  \/ round_qty_floor_call

SpecMarket == InitMarket /\ [][NextMarket]_vars

\* ------------------------------------------------------------------------
\* Position sizing on its own: call, inputs and specification
\* ------------------------------------------------------------------------
compute_qty_call ==
  /\ pc = "idle"
  /\ last.op = "input"
  /\ last.call = "compute_qty"
  /\ last' = [op |-> "compute_qty", nav |-> last.nav, price |-> last.price,
              stop_px |-> last.stop_px, available_quote |-> last.available_quote,
              leverage |-> last.leverage,
              ret |-> compute_qty(last.nav, last.price, last.stop_px, None, None,
                                  last.available_quote, last.leverage)]
  /\ UNCHANGED <<now, frozen, orders, positions, exch, engine, pc, frame, trace, hist, store_conn>>
  /\ UNCHANGED notifier

\* A stop at 1999 or 1999.9 is within 0.1% of the price 2000; the available
\* quote balance may be absent, negative or zero.
SizingInputs ==
  {[op |-> "input", call |-> "compute_qty", nav |-> nav, price |-> price,
    stop_px |-> stop_px, available_quote |-> available_quote, leverage |-> leverage] :
     nav \in {R(-1), RZero, R(1000), R(100000)},
     price \in {R(1000), R(2000)},
     stop_px \in {RZero, R(1900), R(1999), Rat(19999, 10), R(2000), R(2100)},
     available_quote \in {None, R(-100), RZero, R(2000), R(100000)},
     leverage \in {None, Rat(1, 2), R(1), R(3)}}

InitSizing == InitWith(SizingInputs)

NextSizing == compute_qty_call

SpecSizing == InitSizing /\ [][NextSizing]_vars

\* ------------------------------------------------------------------------
\* Margin check of the guard: inputs and specification
\* ------------------------------------------------------------------------
\* MarginMeta asks for a notional of 3000, more than the sized quantity gives
\* and more than the smaller balances cover; StrictMeta asks for 100000, which
\* no balance covers; a sell price of 2001 is rounded up to 2005.
MarginMeta == SymbolMeta(5, 1, 3000, 1)

StrictMeta == SymbolMeta(5, 1, 100000, 1)

MarginInputs ==
  {GuardArgs(nav, price, R(1900), MarketConstraints(4, 10), RZero, None, RZero, None,
             meta, side, avail, leverage, 0) :
     nav \in {R(1000), R(20000)},
     price \in {R(2000), R(2001)},
     meta \in {MarginMeta, StrictMeta},
     side \in {"buy", "sell"},
     avail \in {R(-100), RZero, R(2000), R(20000)},
     leverage \in {None, RZero, R(1), R(3)}}

NextMargin == guard_signal_call(MarginInputs)

SpecMargin == Init /\ [][NextMargin]_vars

\* ------------------------------------------------------------------------
\* The StateStore on its own: context, operations, inputs and specification
\* ------------------------------------------------------------------------
\* __enter__ (lines 151-159): connect and create the schema; the tables are
\* those of the database file.
store_enter ==
  /\ store_conn' = TRUE
  /\ last' = [op |-> "enter"]
  /\ UNCHANGED <<now, frozen, orders, positions, exch, engine, pc, frame, trace, hist, notifier>>

\* __exit__ (lines 161-169): nothing without a connection; otherwise roll
\* back or commit, close and forget the connection.  Every operation has
\* committed its own write, so neither changes the tables.
store_exit ==
  /\ \E exc \in BOOLEAN :
       last' = [op |-> "exit", exc |-> exc]
  /\ store_conn' = FALSE
  /\ UNCHANGED <<now, frozen, orders, positions, exch, engine, pc, frame, trace, hist, notifier>>

\* An operation reads self.conn first: without a connection it raises.
store_raises(op) ==
  /\ conn_error(store_conn) # NoneStr
  /\ last' = [op |-> op, error |-> conn_error(store_conn), ret |-> None]
  /\ UNCHANGED <<orders, positions>>

store_returns(op, ret) ==
  /\ conn_error(store_conn) = NoneStr
  /\ last' = [op |-> op, error |-> NoneStr, ret |-> ret]

upsert_order_call(OrderSet) ==
  /\ \/ store_raises("upsert_order")
     \/ \E order \in OrderSet :
          /\ store_returns("upsert_order", None)
          /\ orders' = upsert_order(orders, order)
          /\ UNCHANGED positions
  /\ UNCHANGED <<now, frozen, exch, engine, pc, frame, trace, hist, store_conn, notifier>>

get_order_by_coid_call(OrderSet) ==
  /\ \/ store_raises("get_order_by_coid")
     \/ \E order \in OrderSet :
          /\ store_returns("get_order_by_coid",
                           get_order_by_coid(orders, order.client_order_id))
          /\ UNCHANGED <<orders, positions>>
  /\ UNCHANGED <<now, frozen, exch, engine, pc, frame, trace, hist, store_conn, notifier>>

list_orders_call ==
  /\ \/ store_raises("list_orders")
     \/ \E symbol \in {"BTC", NoneStr} :
          /\ store_returns("list_orders", list_orders(orders, symbol))
          /\ UNCHANGED <<orders, positions>>
  /\ UNCHANGED <<now, frozen, exch, engine, pc, frame, trace, hist, store_conn, notifier>>

delete_order_call(OrderSet) ==
  /\ \/ store_raises("delete_order")
     \/ \E order \in OrderSet :
          /\ store_returns("delete_order", None)
          /\ orders' = delete_order(orders, order.oid)
          /\ UNCHANGED positions
  /\ UNCHANGED <<now, frozen, exch, engine, pc, frame, trace, hist, store_conn, notifier>>

update_order_status_call(OrderSet) ==
  /\ \/ store_raises("update_order_status")
     \/ \E order \in OrderSet :
          /\ store_returns("update_order_status", None)
          /\ orders' = update_order_status(orders, order.oid, "canceled", now)
          /\ UNCHANGED positions
  /\ UNCHANGED <<now, frozen, exch, engine, pc, frame, trace, hist, store_conn, notifier>>

get_position_call ==
  /\ \/ store_raises("get_position")
     \/ /\ store_returns("get_position", get_position(positions, "BTC"))
        /\ UNCHANGED <<orders, positions>>
  /\ UNCHANGED <<now, frozen, exch, engine, pc, frame, trace, hist, store_conn, notifier>>

set_position_call(PositionSet) ==
  /\ \/ store_raises("set_position")
     \/ \E position \in PositionSet :
          /\ store_returns("set_position", None)
          /\ positions' = set_position(positions, position)
          /\ UNCHANGED orders
  /\ UNCHANGED <<now, frozen, exch, engine, pc, frame, trace, hist, store_conn, notifier>>

clear_position_call ==
  /\ \/ store_raises("clear_position")
     \/ /\ store_returns("clear_position", None)
        /\ positions' = clear_position(positions, "BTC")
        /\ UNCHANGED orders
  /\ UNCHANGED <<now, frozen, exch, engine, pc, frame, trace, hist, store_conn, notifier>>

StoreOrders ==
  {Order(<<"xid", n>>, "BTC", "buy", R(1), R(2000), status, 0, 0, TRUE,
         make_coid("BTC", "buy", n, 0), TRUE, RZero, NoneStr) :
     n \in {1, 2}, status \in {"open", "closed"}}

StorePositions ==
  {Position("BTC", "buy", qty, R(2000), R(1900), R(2200), R(3), 0, None, None) :
     qty \in {R(1), R(2)}}

\* StateStore.__init__ (lines 143-145): no connection yet.
InitStore ==
  /\ store_conn = FALSE
  /\ notifier = MainNotifier
  /\ last = [op |-> "init"]
  /\ now = 0
  /\ frozen = FALSE
  /\ orders = EmptyFn
  /\ positions = EmptyFn
  /\ exch = <<>>
  /\ engine = FreshEngine
  /\ pc = "idle"
  /\ frame = None
  /\ trace = <<>>
  /\ hist = [ncalls |-> 0, calls |-> <<>>, creates |-> EmptyFn, resume |-> None,
             setup |-> EmptyFn]

NextStore ==
  \/ store_enter
  \/ store_exit
  \/ upsert_order_call(StoreOrders)
  \/ get_order_by_coid_call(StoreOrders)
  \/ list_orders_call
  \/ delete_order_call(StoreOrders)
  \/ update_order_status_call(StoreOrders)
  \/ get_position_call
  \/ set_position_call(StorePositions)
  \/ clear_position_call

SpecStore == InitStore /\ [][NextStore]_vars

\* ------------------------------------------------------------------------
\* The notifier and the cycle: inputs and specification
\* ------------------------------------------------------------------------
\* Sends are followed until the streak is past both thresholds.
MaxFailures == NOTIFY_THRESHOLD_DEFAULT + 1

send_message_call ==
  /\ pc = "idle"
  /\ notifier.failures < MaxFailures
  /\ \E ok \in BOOLEAN :
       /\ notifier' = send_message(notifier, ok).notifier
       /\ last' = [op |-> "send_message", ok |-> ok,
                   ret |-> send_message(notifier, ok).ret]
  /\ UNCHANGED <<now, frozen, orders, positions, exch, engine, pc, frame, trace, hist,
                 store_conn>>

\* The cycle is handed the notifier: line 227 reads notifier.failure_streak.
NotifyCycleInputs ==
  {CycleInput(side, R(2000), R(1900), R(2200), R(100000), RZero, None,
              notifier_attr(notifier, "failure_streak"), None) :
     side \in {"buy", NoneStr}}

InitNotify ==
  /\ notifier \in {TelegramNotifier(token, chat_id, max_failures) :
                      token \in BOOLEAN, chat_id \in BOOLEAN, max_failures \in {2, 3}}
  /\ store_conn = TRUE
  /\ last = [op |-> "init"]
  /\ now = 0
  /\ frozen = FALSE
  /\ orders = EmptyFn
  /\ positions = EmptyFn
  /\ exch = <<>>
  /\ engine = FreshEngine
  /\ pc = "idle"
  /\ frame = None
  /\ trace = <<>>
  /\ hist = [ncalls |-> 0, calls |-> <<>>, creates |-> EmptyFn, resume |-> None,
             setup |-> EmptyFn]

NextNotify ==
  \/ send_message_call
  \/ run_once(NotifyCycleInputs, {EmptyMarket})
  \/ set_frozen_call

SpecNotify == InitNotify /\ [][NextNotify]_vars

\* Orchestrator cycles, with direct calls to the guard in between.
CycleInputs ==
  {CycleInput(side, R(2000), R(1900), R(2200), R(100000), daily, None, streak, None) :
     side \in {"buy", NoneStr}, daily \in {RZero, <<-3, 100>>}, streak \in {None, RZero}}

CycleGuardInputs ==
  {GuardArgs(nav, R(2000), stop_px, MarketConstraints(0, 0), daily, None, RZero, None,
             meta, "buy", None, None, open_positions) :
     nav \in {RZero, R(100000)}, stop_px \in {R(1900), R(1999)},
     daily \in {RZero, <<-3, 100>>}, meta \in {None, RiskMeta},
     open_positions \in {0, 1}}

NextCycle ==
  \/ run_once(CycleInputs, {EmptyMarket})
  \/ ladder_sanitize
  \/ ladder_submit(CreateOutcomes)
  \/ ladder_persist({FetchAbsent})
  \/ ladder_finish(ProtOutcomes)
  \/ guard_signal_call(CycleGuardInputs)
  \/ set_frozen_call
  \/ Tick

SpecCycle == Init /\ [][NextCycle]_vars

\* A ladder whose levels rest, fill in part or fill at once, with a venue
\* whose fetch_order is missing, raises, or answers open or closed.
FetchRaises == [kind |-> "raises"]

NextFetch ==
  \/ submit_ladder_call({SignalRegular}, {EmptyMarket})
  \/ ladder_sanitize
  \/ ladder_submit({CreateOpen, CreateClosed, CreatePartial})
  \/ ladder_persist({FetchAbsent, FetchRaises, FetchOpen, FetchClosed})
  \/ ladder_finish(ProtOutcomes)
  \/ Tick

SpecFetch == Init /\ [][NextFetch]_vars

\* Responses to create_order that carry a maker/taker indication in info, a
\* top-level postOnly flag, both, or neither.
InfoOf(takerOrMaker, maker, liquidity) ==
  [takerOrMaker |-> takerOrMaker, maker |-> maker, liquidity |-> liquidity]

CreateWith(info_is_dict, info, postOnly) ==
  [CreateOpen EXCEPT !.info_is_dict = info_is_dict, !.info = info, !.postOnly = postOnly]

MakerOutcomes ==
  {CreateWith(TRUE, InfoOf("taker", "true", "absent"), "true"),
   CreateWith(TRUE, InfoOf("maker", "absent", "absent"), "absent"),
   CreateWith(TRUE, InfoOf(NoneStr, "false", "maker"), "true"),
   CreateWith(TRUE, InfoOf(NoneStr, "absent", "taker"), "absent"),
   CreateWith(TRUE, EmptyInfo, "false"),
   CreateWith(TRUE, EmptyInfo, "absent"),
   CreateWith(FALSE, EmptyInfo, "false"),
   CreateWith(FALSE, EmptyInfo, "true"),
   CreateWith(FALSE, EmptyInfo, "absent")}

NextMaker ==
  \/ submit_ladder_call({SignalRegular}, {EmptyMarket})
  \/ ladder_sanitize
  \/ ladder_submit(MakerOutcomes)
  \/ ladder_persist({FetchAbsent})
  \/ ladder_finish(ProtOutcomes)

SpecMaker == Init /\ [][NextMaker]_vars

\* A venue that reports a freshly placed stop order with a status word of its
\* own, and one that reports a take-profit order as expired.
ProtUntriggered == [ProtOk EXCEPT !.status = "untriggered"]
ProtExpired == [ProtOk EXCEPT !.status = "expired"]

StatusOutcomes ==
  {ProtOutcome(TRUE, TRUE, ProtOk, ProtOk),
   ProtOutcome(TRUE, TRUE, ProtUntriggered, ProtOk),
   ProtOutcome(TRUE, TRUE, ProtOk, ProtExpired)}

NextStatus ==
  \/ submit_ladder_call({SignalRegular, SignalDust}, {EmptyMarket})
  \/ ladder_sanitize
  \/ ladder_submit({CreateRaises, CreateOpen, CreateClosed})
  \/ ladder_persist({FetchAbsent, FetchClosed})
  \/ ladder_finish(StatusOutcomes)
  \/ Tick

SpecStatus == Init /\ [][NextStatus]_vars

\* Ladders with and without a stop and a target; the target of the short is
\* less than one price increment above 0.
SignalBare == LadderArgs("BTC", "buy", R(20000), R(600), None, None)
SignalShort == LadderArgs("ETH", "sell", R(20000), R(600), R(21000), <<1, 2>>)

StopOutcomes ==
  {ProtOutcome(TRUE, TRUE, ProtOk, ProtOk), ProtOutcome(TRUE, TRUE, ProtRaises, ProtOk),
   ProtOutcome(TRUE, TRUE, ProtOk, ProtRaises)}

NextStops ==
  \/ submit_ladder_call({SignalRegular, SignalBare, SignalShort}, {EmptyMarket})
  \/ ladder_sanitize
  \/ ladder_submit({CreateOpen, CreateClosed})
  \/ ladder_persist({FetchAbsent})
  \/ ladder_finish(StopOutcomes)
  \/ Tick

SpecStops == Init /\ [][NextStops]_vars

\* Markets with a minimum quantity of 4 and with a minimum cost of 50000, and
\* a signal whose quantity per level lies below either minimum.
MinQtyMarket == MarketInfo(R(1), R(1), None, R(4), None, None, None)
MinCostMarket == MarketInfo(R(1), R(1), None, None, R(50000), None, None)
SignalSmall == LadderArgs("BTC", "buy", R(20000), R(4), R(19000), R(22000))

NextBump ==
  \/ submit_ladder_call({SignalRegular, SignalSmall},
                        {EmptyMarket, MinQtyMarket, MinCostMarket})
  \/ ladder_sanitize
  \/ ladder_submit({CreateOpen, CreateClosed})
  \/ ladder_persist({FetchAbsent})
  \/ ladder_finish(ProtOutcomes)
  \/ Tick

SpecBump == Init /\ [][NextBump]_vars

\* A venue that reports a level as closed with more filled than was asked
\* for, at create_order or at fetch_order.
CreateOverfilled == CreateOutcome(FALSE, TRUE, TRUE, "closed", "double")
FetchOverfilled == [kind |-> "resp", status |-> "closed", fill |-> "double", average |-> None]

NextOverfill ==
  \/ submit_ladder_call({SignalRegular}, {EmptyMarket})
  \/ ladder_sanitize
  \/ ladder_submit({CreateOpen, CreatePartial, CreateClosed, CreateOverfilled})
  \/ ladder_persist({FetchAbsent, FetchOpen, FetchOverfilled})
  \/ ladder_finish(ProtOutcomes)
  \/ Tick

SpecOverfill == Init /\ [][NextOverfill]_vars

\* Ladders with levels that fail sanitization or whose submission raises,
\* followed by expire_orders and cancel_all.
NextReject ==
  \/ submit_ladder_call({SignalRegular, SignalDust}, {EmptyMarket})
  \/ ladder_sanitize
  \/ ladder_submit({CreateRaises, CreateOpen})
  \/ ladder_persist({FetchAbsent})
  \/ ladder_finish(ProtOutcomes)
  \/ expire_orders("BTC", 1, 0)
  \/ cancel_all("BTC")
  \/ Tick

SpecReject == Init /\ [][NextReject]_vars

\* ------------------------------------------------------------------------
\* Properties of the risk guard
\* ------------------------------------------------------------------------
Rejected(reason) == [qty |-> None, reason |-> reason]

DailyLossBreached(a) == RLe(a.daily_pnl_pct, <<-3, 100>>)
FundingExtreme(a) ==
  /\ a.funding_annualized # None
  /\ \/ RLt(<<8, 10>>, a.funding_annualized)
     \/ RLt(a.funding_annualized, <<-8, 10>>)
NotifierDown(a) ==
  a.notify_threshold # None /\ RLe(a.notify_threshold, a.notify_fail_streak)
FreezeTriggered(a) == DailyLossBreached(a) \/ FundingExtreme(a) \/ NotifierDown(a)

\* C5: while the freeze flag is set, every guard_signal call returns
\* (none, "manual"), whatever its arguments, and leaves the flag set.
FrozenRejectsEverything ==
  (last.op = "guard_signal" /\ last.was_frozen)
    => (last.ret = Rejected("manual") /\ frozen)

\* A frozen guard was called with a daily-loss breach and answered "manual".
FrozenRejectsEverythingWitness ==
  /\ last.op = "guard_signal"
  /\ last.was_frozen
  /\ DailyLossBreached(last.args)
  /\ last.ret.reason = "manual"
  /\ frozen

\* C6: with the flag clear and daily_pnl_pct <= -daily_loss_limit_pct,
\* guard_signal returns (none, "daily_dd") whatever the other arguments are
\* and the flag is set when it returns; a guard_signal call that follows
\* directly is rejected.
DailyLossFreezes ==
  /\ []((last.op = "guard_signal" /\ ~last.was_frozen /\ DailyLossBreached(last.args))
          => (last.ret = Rejected("daily_dd") /\ frozen))
  /\ [][(last.op = "guard_signal" /\ last.ret.reason = "daily_dd"
          /\ last'.op = "guard_signal" /\ last' # last)
         => last'.ret = Rejected("manual")]_vars

\* The loss limit was hit exactly, with funding extreme as well, and the
\* guard answered daily_dd and froze.
DailyLossFreezesWitness ==
  /\ last.op = "guard_signal"
  /\ ~last.was_frozen
  /\ last.args.daily_pnl_pct = <<-3, 100>>
  /\ FundingExtreme(last.args)
  /\ last.ret.reason = "daily_dd"
  /\ frozen

\* C7: the flag goes from set to clear only in a set_frozen(False) call; no
\* guard_signal or should_freeze call, clock tick or restart clears it.
FreezeClearedOnlyExplicitly ==
  [][(frozen /\ ~frozen') => (last'.op = "set_frozen" /\ last'.args = FALSE)]_vars

\* The flag is still set after a restart of the process.
FreezeClearedOnlyExplicitlyWitness ==
  frozen /\ last.op = "restart" /\ now > 0

\* C8: should_freeze returns the first match in the order daily_dd,
\* funding_extreme (either sign), notify_down, and none when nothing matches.
ShouldFreezeFirstMatch ==
  last.op = "should_freeze" =>
    LET a == last.args IN
    /\ DailyLossBreached(a) => last.ret = "daily_dd"
    /\ (~DailyLossBreached(a) /\ FundingExtreme(a)) => last.ret = "funding_extreme"
    /\ (~DailyLossBreached(a) /\ ~FundingExtreme(a) /\ NotifierDown(a))
         => last.ret = "notify_down"
    /\ ~FreezeTriggered(a) => last.ret = NoneStr

\* All three conditions held at once and daily_dd was returned.
ShouldFreezeFirstMatchWitness ==
  /\ last.op = "should_freeze"
  /\ DailyLossBreached(last.args)
  /\ FundingExtreme(last.args)
  /\ NotifierDown(last.args)
  /\ last.ret = "daily_dd"

\* ------------------------------------------------------------------------
\* Properties of the ladder submission
\* ------------------------------------------------------------------------
Events(kind) == {i \in DOMAIN trace : trace[i].ev = kind}

\* The latest call has returned and an earlier call had the same arguments
\* and captured the same timestamp.
RepeatedCall ==
  /\ pc = "idle"
  /\ last.op = "submit_ladder"
  /\ Len(hist.calls) >= 2
  /\ \E i \in 1..(Len(hist.calls) - 1) : hist.calls[i] = hist.calls[Len(hist.calls)]

\* C1: over all submit_ladder calls on one store, create_order is invoked at
\* most once for a ladder level (a symbol, side, level index and captured
\* timestamp), and a level whose client order id is already persisted is
\* skipped: the call that finds it makes no create_order call for it.
CreateAtMostOncePerLevel ==
  /\ \A coid \in DOMAIN hist.creates : hist.creates[coid] <= 1
  /\ \A i \in Events("lookup") :
       trace[i].stored =>
         ~\E j \in Events("create") : trace[j].level = trace[i].level

\* A repeated call has skipped a level that the earlier call had sent.
CreateAtMostOncePerLevelWitness ==
  /\ RepeatedCall
  /\ \E i \in Events("lookup") :
       /\ trace[i].stored
       /\ hist.creates[make_coid(last.args.symbol, last.args.side,
                                 trace[i].level, last.ts)] = 1

\* C3: in one submit_ladder call the create_order calls go out in ascending
\* level index, and each is directly preceded by the lookup of that level's
\* client order id, whose answer is what the store holds at that moment (and
\* is negative, or the level would not be sent).
LookupBeforeCreateAscending ==
  /\ \A i, j \in Events("create") : i < j => trace[i].level < trace[j].level
  /\ \A i \in Events("lookup") : trace[i].found = trace[i].stored
  /\ \A j \in Events("create") :
       /\ j > 1
       /\ trace[j - 1].ev = "lookup"
       /\ trace[j - 1].level = trace[j].level
       /\ ~trace[j - 1].stored

\* One call has sent two levels.
LookupBeforeCreateAscendingWitness ==
  /\ pc = "idle"
  /\ last.op = "submit_ladder"
  /\ \E i, j \in Events("create") :
       trace[i].level = 0 /\ trace[j].level = 1 /\ trace[i].accepted /\ trace[j].accepted

\* The submit_ladder call the trace belongs to: the running one, or the one
\* that has just returned.
InCall == pc # "idle" \/ (last.op = "submit_ladder" /\ last.done)
CallArgs == IF pc # "idle" THEN frame.args ELSE last.args
CallTs == IF pc # "idle" THEN frame.ts ELSE last.ts

\* C10: a level that fails sanitization is recorded as a rejected Order whose
\* reject_reason is the sanitization error, no create_order call is made for
\* it, and the ladder goes on: every level is sanitized, and every level that
\* passes is looked up for submission.
RejectedLevelRecorded ==
  InCall =>
    /\ \A i \in Events("sanitize") :
         trace[i].error # NoneStr =>
           /\ \E k \in DOMAIN orders :
                /\ orders[k].client_order_id =
                     make_coid(CallArgs.symbol, CallArgs.side, trace[i].level, CallTs)
                /\ orders[k].status = "rejected"
                /\ orders[k].reject_reason = trace[i].error
           /\ ~\E j \in Events("create") : trace[j].level = trace[i].level
    /\ pc # "sanitize" =>
         {trace[i].level : i \in Events("sanitize")} =
           0..(Len(ladder_prices(CallArgs.side, CallArgs.price)) - 1)
    /\ pc = "idle" =>
         \A i \in Events("sanitize") :
           trace[i].error = NoneStr =>
             \E j \in Events("lookup") : trace[j].level = trace[i].level

\* A call has returned in which level 0 failed sanitization and level 1 was
\* processed after it.
RejectedLevelRecordedWitness ==
  /\ pc = "idle"
  /\ last.op = "submit_ladder"
  /\ \E i, j \in Events("sanitize") :
       /\ trace[i].level = 0 /\ trace[i].error = "min_qty"
       /\ trace[j].level = 1 /\ i < j
  /\ Cardinality({k \in DOMAIN orders : orders[k].status = "rejected"}) >= 2

\* C11: when create_order raises for a level, the level is stored as an Order
\* with status rejected and reject_reason submit_error under its client order
\* id, and the call goes on: by the time it has returned, every later level
\* that passed sanitization was looked up, and sent when the lookup found
\* nothing.
SubmitErrorIsolated ==
  InCall =>
    /\ \A j \in Events("create") :
         ~trace[j].accepted =>
           LET coid == make_coid(CallArgs.symbol, CallArgs.side, trace[j].level, CallTs)
           IN  /\ coid \in DOMAIN orders
               /\ orders[coid].client_order_id = coid
               /\ orders[coid].status = "rejected"
               /\ orders[coid].reject_reason = "submit_error"
    /\ pc = "idle" =>
         \A j \in Events("create"), i \in Events("sanitize") :
           (~trace[j].accepted /\ trace[i].error = NoneStr
            /\ trace[i].level > trace[j].level) =>
             \E l \in Events("lookup") :
               /\ l > j
               /\ trace[l].level = trace[i].level
               /\ ~trace[l].found =>
                    (l < Len(trace) /\ trace[l + 1].ev = "create"
                     /\ trace[l + 1].level = trace[i].level)

\* A call has returned in which create_order raised for level 0 and level 1
\* was accepted by the venue afterwards.
SubmitErrorIsolatedWitness ==
  /\ pc = "idle"
  /\ last.op = "submit_ladder"
  /\ last.done
  /\ \E i, j \in Events("create") :
       /\ trace[i].level = 0 /\ ~trace[i].accepted
       /\ trace[j].level = 1 /\ trace[j].accepted /\ i < j
  /\ \E k \in DOMAIN orders : orders[k].reject_reason = "submit_error"

\* ------------------------------------------------------------------------
\* Properties of the position and its protective orders
\* ------------------------------------------------------------------------
\* The latest operation is a submit_ladder call that has returned.
Returned == pc = "idle" /\ last.op = "submit_ladder" /\ last.done

\* C12: a submit_ladder call writes the Position if and only if one of the
\* levels it sent reported a fill.  Without a fill the positions table is as
\* it was before the call and no protective order was canceled or sent; with
\* a fill the symbol has a Position after the call, also when create_order
\* raised for another level.
PositionIffFilled ==
  Returned =>
    /\ (Events("fill") # {}) <=> (Events("set_position") # {})
    /\ (Events("fill") # {}) <=> RLt(RZero, last.filled_qty)
    /\ Events("fill") = {} =>
         /\ positions = last.positions0
         /\ Events("cancel") = {}
         /\ Events("create_protective") = {}
    /\ Events("fill") # {} =>
         /\ last.args.symbol \in DOMAIN positions
         /\ positions # last.positions0

\* A call in which create_order raised for level 0 and level 1 filled has
\* opened the Position.
PositionIffFilledWitness ==
  /\ Returned
  /\ \E j \in Events("create") : trace[j].level = 0 /\ ~trace[j].accepted
  /\ \E i \in Events("fill") : trace[i].level = 1
  /\ last.positions0 = EmptyFn
  /\ last.args.symbol \in DOMAIN positions

\* The fill of the call that has just returned: quantity and average price.
FillQty == last.filled_qty
FillPrice == RDiv(last.filled_value, last.filled_qty)
Filled == Returned /\ RLt(RZero, last.filled_qty)
HadPosition == last.args.symbol \in DOMAIN last.positions0

\* C13 as stated: after a call that filled q1 at average price p1 on top of a
\* Position (q0, p0), the Position has qty = q0 + q1 and
\* entry_price = (q0*p0 + q1*p1) / (q0 + q1); without a Position before the
\* call, entry_price = p1.
PositionAveragedExact ==
  Filled =>
    LET pos == positions[last.args.symbol] IN
    IF HadPosition
      THEN LET old == last.positions0[last.args.symbol] IN
           /\ pos.qty = RAdd(old.qty, FillQty)
           /\ pos.entry_px = RDiv(RAdd(RMul(old.qty, old.entry_px),
                                       RMul(FillQty, FillPrice)),
                                  RAdd(old.qty, FillQty))
      ELSE pos.entry_px = FillPrice

\* C13, amended: the fill enters the Position with its quantity floored to
\* the quantity step (q1') and its average price rounded half-even to the
\* price step (p1').  A new Position has qty = q1' and entry_price = p1'; an
\* existing Position (q0, p0) gets qty = q0 + q1' floored to the quantity step
\* and entry_price = (q0*p0 + q1'*p1') / qty.
PositionAveragedRounded ==
  Filled =>
    LET pos == positions[last.args.symbol]
        meta == engine.symbol_meta[last.args.symbol]
        q1 == round_qty_floor(FillQty, meta.quantity_increment)
        p1 == round_to_step(FillPrice, meta.price_increment)
    IN
    IF HadPosition
      THEN LET old == last.positions0[last.args.symbol]
               total == round_qty_floor(RAdd(old.qty, q1), meta.quantity_increment)
           IN  /\ pos.qty = total
               /\ RLt(RZero, total)
               /\ pos.entry_px = RDiv(RAdd(RMul(old.qty, old.entry_px), RMul(q1, p1)),
                                      total)
      ELSE pos.qty = q1 /\ pos.entry_px = p1

\* A fill whose average price lies between two price steps was added to an
\* existing Position with a different entry price.
PositionAveragedRoundedWitness ==
  /\ Filled
  /\ HadPosition
  /\ FillPrice # round_to_step(FillPrice,
                                engine.symbol_meta[last.args.symbol].price_increment)
  /\ last.positions0[last.args.symbol].entry_px # positions[last.args.symbol].entry_px

\* The exchange orders sent as protective orders by the latest call.
NewProtective(type) ==
  {i \in DOMAIN exch : exch[i].level = -1 /\ exch[i].cycle = hist.ncalls
                        /\ exch[i].type = type}

NoStaleProtective ==
  (Returned /\ Events("set_position") # {}) =>
    \A i \in DOMAIN exch :
      (exch[i].level = -1 /\ exch[i].symbol = last.args.symbol
       /\ exch[i].state = "live") =>
        exch[i].amount = positions[last.args.symbol].qty

\* C16: every stop_order_id and take_profit_order_id that a persisted
\* Position holds is the id of an Order record present in the store.
ProtectiveIdsInStore ==
  \A sym \in DOMAIN positions :
    \A id \in {positions[sym].sl_order_id, positions[sym].tp_order_id} \ {None} :
      id \in DOMAIN orders

\* C17: every protective order sent to the exchange carries the venue's
\* reduce-only flag and is on the side opposite to the side of the Position
\* persisted for its symbol.
HedgeOpposesPosition ==
  \A i \in DOMAIN exch :
    exch[i].level = -1 =>
      /\ <<"reduceOnly", "true">> \in exch[i].params
      /\ exch[i].symbol \in DOMAIN positions =>
           exch[i].side = hedge_side_of(positions[exch[i].symbol].side)

\* ------------------------------------------------------------------------
\* Properties of expire_orders and cancel_all
\* ------------------------------------------------------------------------
\* A record of the store before the latest expire_orders call is stale for it.
Stale(k) ==
  /\ last.before[k].symbol = last.symbol
  /\ last.before[k].post_only
  /\ last.now_ms - last.before[k].ts_created >= last.ttl_ms

Attempts(k) == Cardinality({i \in DOMAIN last.attempts : last.attempts[i] = k})

\* C18: expire_orders calls cancel_order only for orders of the symbol that
\* are post-only and at least ttl_ms old; an order of the symbol that is
\* younger or not post-only gets no cancel call, and its record and its state
\* on the exchange are after the call what they were before.
ExpireOnlyStalePostOnly ==
  last.op = "expire_orders" =>
    /\ \A i \in DOMAIN last.attempts :
         last.attempts[i] \in DOMAIN last.before /\ Stale(last.attempts[i])
    /\ \A k \in DOMAIN last.before :
         ~Stale(k) =>
           /\ Attempts(k) = 0
           /\ k \in DOMAIN orders
           /\ orders[k] = last.before[k]

\* An expire_orders call has canceled an old post-only order and has left
\* alone a younger post-only order and a protective order of the same age as
\* the canceled one.
ExpireOnlyStalePostOnlyWitness ==
  /\ last.op = "expire_orders"
  /\ \E k1, k2, k3 \in DOMAIN last.before :
       /\ Stale(k1) /\ Attempts(k1) = 1 /\ k1 \notin DOMAIN orders
       /\ last.before[k2].post_only /\ ~Stale(k2) /\ k2 \in DOMAIN orders
       /\ ~last.before[k3].post_only /\ k3 \in DOMAIN orders
       /\ last.now_ms - last.before[k3].ts_created >= last.ttl_ms

\* C19: expire_orders deletes a record if and only if the cancel_order call
\* made for it returned; a cancel that raises leaves its record as it was and
\* the remaining stale orders still get their cancel call; the count returned
\* is the number of records the call deleted.
ExpireDeletesIffCanceled ==
  last.op = "expire_orders" =>
    /\ \A k \in DOMAIN last.before :
         /\ (k \notin DOMAIN orders) <=> (Attempts(k) >= 1 /\ k \notin last.fails)
         /\ k \in DOMAIN orders => orders[k] = last.before[k]
         /\ (last.ttl_ms > 0 /\ Stale(k)) => Attempts(k) = 1
    /\ DOMAIN orders \subseteq DOMAIN last.before
    /\ last.ret = Cardinality(DOMAIN last.before \ DOMAIN orders)

\* In one expire_orders call a cancel raised, its record stayed, and another
\* stale order was canceled and counted.
ExpireDeletesIffCanceledWitness ==
  /\ last.op = "expire_orders"
  /\ last.ret >= 1
  /\ \E k \in last.fails : k \in DOMAIN orders /\ Attempts(k) = 1
  /\ Len(last.attempts) >= 2

\* C20: cancel_all(symbol) calls cancel_order exactly once for every order
\* stored for the symbol, also after a cancel that raised; the records left
\* for the symbol are those whose cancel raised, unchanged, and the records of
\* other symbols are as before.
CancelAllIsolatesFailures ==
  last.op = "cancel_all" =>
    /\ \A k \in DOMAIN last.before :
         /\ Attempts(k) = IF last.before[k].symbol = last.symbol THEN 1 ELSE 0
         /\ last.before[k].symbol = last.symbol =>
              ((k \in DOMAIN orders) <=> (k \in last.fails))
         /\ last.before[k].symbol # last.symbol => k \in DOMAIN orders
         /\ k \in DOMAIN orders => orders[k] = last.before[k]
    /\ DOMAIN orders \subseteq DOMAIN last.before
    /\ Len(last.attempts) = Cardinality(list_orders(last.before, last.symbol))

\* A cancel_all call in which one cancel raised and another returned, on a
\* store that also holds orders of another symbol.
CancelAllIsolatesFailuresWitness ==
  /\ last.op = "cancel_all"
  /\ \E k1, k2, k3 \in DOMAIN last.before :
       /\ last.before[k1].symbol = last.symbol /\ k1 \in last.fails /\ k1 \in DOMAIN orders
       /\ last.before[k2].symbol = last.symbol /\ k2 \notin DOMAIN orders
       /\ last.before[k3].symbol # last.symbol /\ k3 \in DOMAIN orders

\* C21: a record whose cancel_order call raised is still in the store: in a
\* submit_ladder call for every cancel of the protective-order replacement
\* that raised, and after expire_orders and cancel_all for every cancel that
\* raised.
FailedCancelKeepsRecord ==
  /\ InCall =>
       \A c \in Events("cancel") : ~trace[c].ok => trace[c].id \in DOMAIN orders
  /\ last.op \in {"expire_orders", "cancel_all"} =>
       \A k \in last.fails : k \in DOMAIN orders

\* C22: no step of submit_ladder, expire_orders or cancel_all removes a
\* Position row, and expire_orders and cancel_all leave the positions table
\* exactly as it was.
PositionNeverRemoved ==
  [][/\ DOMAIN positions \subseteq DOMAIN positions'
     /\ last'.op \in {"expire_orders", "cancel_all"} => positions' = positions]_vars

\* A Position has been enlarged by a second call, and since then cancel_all
\* has removed the records of its protective orders; the row is as the second
\* call wrote it.
PositionNeverRemovedWitness ==
  /\ last.op = "cancel_all"
  /\ "BTC" \in DOMAIN positions
  /\ positions["BTC"].sl_order_id \in last.cancels \ last.fails
  /\ positions["BTC"].sl_order_id \notin DOMAIN orders
  /\ hist.ncalls = 2
  /\ RLt(R(300), positions["BTC"].qty)

\* C23: since the process started, however many cycles and submit_ladder
\* calls it ran, set_margin_mode, set_leverage and the fetch of the symbol
\* description have each been invoked at most once per symbol.
SetupOncePerSymbol ==
  \A k \in DOMAIN hist.setup : hist.setup[k] <= 1

\* ------------------------------------------------------------------------
\* Properties of the market guard
\* ------------------------------------------------------------------------
\* C24: when sanitize_order returns no error for a symbol description with
\* positive increments, the returned price times the returned quantity is at
\* least min_notional, the returned quantity is at least min_qty, and the
\* returned quantity is a multiple of quantity_increment.
SanitizedMeetsMinimums ==
  (/\ last.op = "sanitize_order"
   /\ last.ret.error = NoneStr
   /\ last.meta.price_increment > 0
   /\ last.meta.quantity_increment > 0)
  => /\ RLe(R(last.meta.min_notional), RMul(last.ret.px, last.ret.qty))
     /\ RLe(R(last.meta.min_qty), last.ret.qty)
     /\ RIsMultiple(last.ret.qty, last.meta.quantity_increment)

\* C25: when sanitize_order returns a price and a quantity with no error,
\* calling it again with that pair, the same symbol description and the same
\* side returns the same pair with no error.
SanitizeIdempotent ==
  (last.op = "sanitize_order" /\ last.ret.error = NoneStr) => last.again = last.ret

\* C26: for a step > 0, round_price_for_side returns a multiple of the step
\* that is <= the price for side buy and for an unrecognized side and >= the
\* price for side sell, and round_qty_floor returns a multiple of the step
\* that is <= the quantity.
RoundingDirection ==
  /\ (last.op = "round_price_for_side" /\ last.step > 0) =>
       /\ RIsMultiple(last.ret, last.step)
       /\ IF last.side = "sell" THEN RLe(last.value, last.ret)
          ELSE RLe(last.ret, last.value)
  /\ (last.op = "round_qty_floor" /\ last.step > 0) =>
       /\ RIsMultiple(last.ret, last.step)
       /\ RLe(last.ret, last.value)

\* ------------------------------------------------------------------------
\* Properties of position sizing
\* ------------------------------------------------------------------------
\* The stop distance |price - stop| / price of the arguments of the call.
StopDistance == RDiv(RAbs(RSub(last.price, last.stop_px)), last.price)

\* compute_qty was called with a price > 0, an available quote balance and a
\* leverage > 0.
SizedWithMargin ==
  /\ last.op = "compute_qty"
  /\ RLt(RZero, last.price)
  /\ last.available_quote # None
  /\ last.leverage # None
  /\ RLt(RZero, last.leverage)

\* The quantity is 0 when nav <= 0 or the stop distance is 0 or below 0.1%.
ZeroWhenNoRisk ==
  (RLe(last.nav, RZero) \/ RLt(StopDistance, <<1, 1000>>)) => last.ret = RZero

\* C27 as stated: for a price > 0, an available quote balance and a
\* leverage > 0, the quantity returned by compute_qty is >= 0 and at most
\* available_quote * leverage / price, and it is 0 when nav <= 0 or the stop
\* distance is 0 or below 0.1%.
ComputeQtyCappedByQuote ==
  SizedWithMargin =>
    /\ RLe(RZero, last.ret)
    /\ RLe(last.ret, RDiv(RMul(last.available_quote, last.leverage), last.price))
    /\ ZeroWhenNoRisk

\* C27 (amended): for a price > 0, an available quote balance and a
\* leverage > 0, the quantity returned by compute_qty is >= 0 and at most
\* max(0, available_quote) * leverage / price, and it is 0 when nav <= 0 or the
\* stop distance is 0 or below 0.1%.
ComputeQtyCappedByMargin ==
  SizedWithMargin =>
    /\ RLe(RZero, last.ret)
    /\ RLe(last.ret, RDiv(RMul(RMax(RZero, last.available_quote), last.leverage),
                          last.price))
    /\ ZeroWhenNoRisk

\* The risk budget asks for more than the margin allows and the quantity is
\* the cap itself.
ComputeQtyCappedByMarginWitness ==
  /\ SizedWithMargin
  /\ RLt(RZero, last.ret)
  /\ last.ret = RDiv(RMul(last.available_quote, last.leverage), last.price)
  /\ last.stop_px = R(1900)

\* ------------------------------------------------------------------------
\* Properties of the margin check
\* ------------------------------------------------------------------------
\* The leverage in effect, the quantity compute_qty gives and the order
\* sanitize_order makes of it, for the arguments of the last guard_signal.
MarginLev == IF last.args.leverage = None THEN cfg_leverage ELSE last.args.leverage

MarginQty ==
  compute_qty(last.args.nav, last.args.price, last.args.stop_px, None, None,
              last.args.available_quote, last.args.leverage)

MarginOrder ==
  sanitize_order(last.args.symbol_meta, last.args.side, last.args.price, MarginQty, TRUE)

MarginCap == RAdd(RMul(last.args.available_quote, MarginLev), MARGIN_EPS)

\* guard_signal was called with symbol metadata, side and available quote.
MarginGiven ==
  /\ last.op = "guard_signal"
  /\ last.args.symbol_meta # None
  /\ last.args.side # NoneStr
  /\ last.args.available_quote # None

\* The call reached sizing, sanitize_order raised the quantity above the
\* floored one without error, and the raised order needs more than the cap.
BumpedAboveCap ==
  /\ ~last.was_frozen
  /\ should_freeze(last.args.daily_pnl_pct, last.args.funding_annualized,
                   last.args.notify_fail_streak, last.args.notify_threshold) = NoneStr
  /\ last.args.open_positions < cfg_max_positions
  /\ MarginQty # RZero
  /\ MarginOrder.error = NoneStr
  /\ RLt(round_qty_floor(MarginQty, last.args.symbol_meta.quantity_increment),
         MarginOrder.qty)
  /\ RLt(MarginCap, RMul(MarginOrder.px, MarginOrder.qty))

MarginHolds ==
  /\ last.ret.qty # None =>
       RLe(RMul(round_price_for_side(last.args.price,
                                     last.args.symbol_meta.price_increment,
                                     last.args.side),
                last.ret.qty),
           MarginCap)
  /\ BumpedAboveCap => last.ret = [qty |-> None, reason |-> "insufficient_margin"]

\* C28: when guard_signal is given symbol metadata, side and available
\* quote, an approved quantity times the sanitized price is at most
\* available_quote * leverage plus the epsilon, and when the bump of
\* sanitize_order pushes the notional above that cap the result is
\* (none, "insufficient_margin").
MarginNeverExceeded == MarginGiven => MarginHolds

\* The margin is respected whenever the leverage in effect (the argument, or
\* the configured one when none is given) is > 0.
MarginRespectedWhenLevered == (MarginGiven /\ RLt(RZero, MarginLev)) => MarginHolds

\* ------------------------------------------------------------------------
\* Properties of the store
\* ------------------------------------------------------------------------
StoreOps ==
  {"upsert_order", "get_order_by_coid", "list_orders", "delete_order",
   "update_order_status", "get_position", "set_position", "clear_position"}

\* C29: a persistence operation invoked while the StateStore has no entered
\* context (before __enter__ or after __exit__) fails with an error and
\* leaves the orders and positions tables as they were.
ClosedStoreFails ==
  [][(~store_conn /\ last'.op \in StoreOps) =>
       /\ last'.error = "RuntimeError"
       /\ orders' = orders
       /\ positions' = positions]_vars

\* set_position has just failed on a store whose context was exited after an
\* order and a position had been written.
ClosedStoreFailsWitness ==
  /\ ~store_conn
  /\ last.op = "set_position"
  /\ last.error = "RuntimeError"
  /\ orders # EmptyFn
  /\ positions # EmptyFn

\* ------------------------------------------------------------------------
\* Properties of the notifier
\* ------------------------------------------------------------------------
\* C30: a send_message that fails raises the notifier's failure counter by
\* one and one that succeeds resets it to 0; the freeze marker is written when
\* the counter has reached max_failures; and a cycle with a signal that runs
\* while the counter is >= the notify threshold is rejected by guard_signal
\* (notify_down the first time, manual once frozen) and leaves the guard
\* frozen.
NotifierStreakFreezes ==
  [][/\ last'.op = "send_message" =>
          /\ notifier'.failures = IF last'.ret THEN 0 ELSE notifier.failures + 1
          /\ notifier'.marker =
               (notifier.marker \/ notifier'.failures >= notifier.max_failures)
     /\ (/\ last'.op = "run_once"
         /\ last'.status # "no_signal"
         /\ notifier.failures >= NOTIFY_THRESHOLD_DEFAULT) =>
          /\ frozen'
          /\ last'.reason \in {"notify_down", "manual"}]_vars

\* ------------------------------------------------------------------------
\* Properties of the fill poll
\* ------------------------------------------------------------------------
\* The persist events of one level of the call in progress.
PersistedAt(level) == {i \in Events("persist") : trace[i].level = level}
FetchesAt(level) == {i \in Events("fetch") : trace[i].level = level}

\* C31: within one submit_ladder call, fetch_order is called at most once per
\* level, only for a level the exchange accepted and whose create_order
\* response reported no fill (status not closed and filled not > 0); and once
\* the call has returned, every level that passed sanitization was looked up,
\* also the levels after one whose fetch_order raised.
FetchOncePerUnfilledLevel ==
  InCall =>
    /\ \A i \in Events("fetch") :
         /\ FetchesAt(trace[i].level) = {i}
         /\ \E c \in Events("create") :
              trace[c].level = trace[i].level /\ trace[c].accepted
         /\ \E p \in PersistedAt(trace[i].level) :
              /\ p < i
              /\ trace[p].status # "closed"
              /\ ~RLt(RZero, trace[p].filled)
    /\ Returned =>
         \A s \in Events("sanitize") :
           trace[s].error = NoneStr =>
             \E l \in Events("lookup") : trace[l].level = trace[s].level

\* A call that returned although the poll of its first level raised, and
\* whose second level was then filled at once and not polled.
FetchOncePerUnfilledLevelWitness ==
  /\ Returned
  /\ \E i \in Events("fetch") : trace[i].level = 0 /\ ~trace[i].ok
  /\ \E p \in PersistedAt(1) : trace[p].status = "closed"
  /\ FetchesAt(1) = {}
  /\ \E f \in Events("fill") : trace[f].level = 1 /\ trace[f].src = "create"
\* ------------------------------------------------------------------------
\* Properties of the persisted ladder order
\* ------------------------------------------------------------------------
\* The precedence takerOrMaker, then maker/liquidity, then postOnly, applied
\* to a create_order response.
MakerByPrecedence(resp) ==
  IF resp.info_is_dict /\ resp.info.takerOrMaker # NoneStr
    THEN resp.info.takerOrMaker = "maker"
  ELSE IF resp.info_is_dict /\ resp.info.maker # "absent"
    THEN resp.info.maker = "true"
  ELSE IF resp.info_is_dict /\ resp.info.liquidity # "absent"
    THEN resp.info.liquidity = "maker"
  ELSE IF resp.postOnly # "absent" THEN resp.postOnly = "true"
  ELSE TRUE

\* C32: the maker flag of the Order persisted for a submitted level equals
\* (takerOrMaker = maker) when the response info has takerOrMaker, else the
\* info's maker or liquidity field, else the response's postOnly flag, and is
\* true only when none of these is present.
MakerFollowsPrecedence ==
  InCall =>
    \A p \in Events("persist") :
      /\ trace[p].oid \in DOMAIN orders
      /\ orders[trace[p].oid].maker = MakerByPrecedence(trace[p].resp)

\* The info fields alone decide the flag that is stored.
MakerFollowsInfo ==
  InCall =>
    \A p \in Events("persist") :
      orders[trace[p].oid].maker =
        MakerByPrecedence([trace[p].resp EXCEPT !.postOnly = "absent"])
OrderStatuses == {"open", "closed", "canceled", "rejected"}

\* C33: every Order record in the store, of a ladder level or of a
\* protective stop or take-profit order, has a status in
\* {open, closed, canceled, rejected}, whatever status the venue returned.
PersistedStatusNormalized ==
  \A oid \in DOMAIN orders : orders[oid].status \in OrderStatuses

\* The records of ladder levels (post_only) have a status in the set.
LadderStatusNormalized ==
  \A oid \in DOMAIN orders :
    orders[oid].post_only => orders[oid].status \in OrderStatuses
\* ------------------------------------------------------------------------
\* Properties of the protective orders' prices
\* ------------------------------------------------------------------------
\* The create_order calls for a protective order of one kind in the latest call.
ProtectiveCalls(kind) ==
  {i \in Events("create_protective") : trace[i].kind = kind}

StoredPx(kind) ==
  IF ~HadPosition THEN None
  ELSE IF kind = "sl" THEN last.positions0[last.args.symbol].sl_px
  ELSE last.positions0[last.args.symbol].tp_px

PassedPx(kind) == IF kind = "sl" THEN last.args.stop_px ELSE last.args.tp_px

\* The price passed to submit_ladder, on the grid of the symbol as
\* _establish_position rounds it (lines 395-404).
RoundedPx(kind) ==
  IF Truthy(PassedPx(kind))
    THEN round_price_for_side(PassedPx(kind),
                              symbol_meta_from_market(EmptyMarket).price_increment,
                              hedge_side_of(last.args.side))
    ELSE PassedPx(kind)

PositivePx(px) == px # None /\ RLt(RZero, px)

\* The position was written whatever became of the protective orders.
PositionWritten ==
  /\ last.args.symbol \in DOMAIN positions
  /\ \E i \in Events("set_position") : trace[i].symbol = last.args.symbol

\* C34 as stated: with the effective price being the one passed or, when
\* none is passed and a Position existed, the one stored on it, a call that
\* filled submits a stop order iff the effective stop is > 0 and a
\* take-profit order iff the effective take-profit is > 0, and it writes the
\* Position also when a protective order could not be placed.
ProtectiveIffPassedOrStored ==
  Filled =>
    /\ \A kind \in {"sl", "tp"} :
         (ProtectiveCalls(kind) # {}) <=>
           PositivePx(IF PassedPx(kind) # None THEN PassedPx(kind) ELSE StoredPx(kind))
    /\ PositionWritten

\* C34: with the effective price being the passed price rounded to the price
\* increment by the hedge side's rule or, when that is none or 0 and a
\* Position existed, the price stored on it, a call that filled makes one
\* create_order call for the stop iff the effective stop is > 0 and one for
\* the take-profit iff the effective take-profit is > 0; the take-profit
\* call is made and the Position is written also when the stop call raised.
ProtectiveIffEffectivePrice ==
  Filled =>
    /\ \A kind \in {"sl", "tp"} :
         /\ (ProtectiveCalls(kind) # {}) <=>
              PositivePx(IF Truthy(RoundedPx(kind)) THEN RoundedPx(kind)
                         ELSE StoredPx(kind))
         /\ Cardinality(ProtectiveCalls(kind)) <= 1
    /\ PositionWritten

\* A call that enlarged a Position without passing a stop or a target: the
\* stop was tried at the stored price and failed, the take-profit was placed
\* and the Position was written.
ProtectiveIffEffectivePriceWitness ==
  /\ Filled
  /\ HadPosition
  /\ PassedPx("sl") = None
  /\ PositivePx(StoredPx("sl"))
  /\ \E i \in ProtectiveCalls("sl") : ~trace[i].accepted
  /\ \E i \in ProtectiveCalls("tp") : trace[i].accepted
  /\ PositionWritten
\* ------------------------------------------------------------------------
\* Properties of the freeze flag's frame
\* ------------------------------------------------------------------------
FreezeReasons == {"daily_dd", "funding_extreme", "notify_down"}

\* C35: a guard_signal call changes the freeze flag only from unfrozen to
\* frozen and only when it returns the reason should_freeze gives for its
\* arguments; a call that returns max_positions, zero_qty, a market_ reason,
\* insufficient_margin, market_constraints or an approved quantity leaves the
\* flag as it was; and a should_freeze call leaves the flag as it was.
FreezeOnlyOnTrigger ==
  [][/\ last'.op = "should_freeze" => frozen' = frozen
     /\ last'.op = "guard_signal" =>
          /\ frozen' # frozen =>
               /\ ~frozen
               /\ frozen'
               /\ last'.ret.reason \in FreezeReasons
               /\ last'.ret.reason =
                    should_freeze(last'.args.daily_pnl_pct, last'.args.funding_annualized,
                                  last'.args.notify_fail_streak,
                                  last'.args.notify_threshold)
          /\ (last'.ret.qty # None
              \/ last'.ret.reason \notin FreezeReasons \cup {"manual"}) =>
               frozen' = frozen]_vars

\* An unfrozen guard that rejected a signal for a market reason and is
\* still unfrozen.
FreezeOnlyOnTriggerWitness ==
  /\ last.op = "guard_signal"
  /\ ~last.was_frozen
  /\ last.ret.reason = "market_min_qty"
  /\ ~frozen
\* ------------------------------------------------------------------------
\* Properties of the quantities of a call
\* ------------------------------------------------------------------------
\* The ladder orders the latest call sent to the exchange, and their total.
SentLevels == {i \in DOMAIN exch : exch[i].cycle = hist.ncalls /\ exch[i].level >= 0}

RECURSIVE SumAmounts(_)
SumAmounts(S) ==
  IF S = {} THEN RZero
  ELSE LET i == CHOOSE x \in S : TRUE IN RAdd(exch[i].amount, SumAmounts(S \ {i}))

SentQty == SumAmounts(SentLevels)

\* C36: in one submit_ladder call the quantities of the orders sent to the
\* exchange over all levels add up to at most the qty argument.
SentWithinApproved ==
  InCall => RLe(SentQty, CallArgs.qty)

\* Without a minimum quantity or notional that lifts a level, the total
\* sent stays within the qty argument.
SentWithinApprovedUnbumped ==
  (InCall /\ \A i \in SentLevels :
               RLe(exch[i].amount, RDiv(CallArgs.qty, R(ladder_levels)))) =>
    RLe(SentQty, CallArgs.qty)
\* C37: the quantity guard_signal approves is at most the quantity
\* compute_qty returns for the same inputs.
ApprovedWithinRiskSize ==
  (last.op = "guard_signal" /\ last.ret.qty # None) => RLe(last.ret.qty, MarginQty)

\* The approved quantity is the one sanitize_order returns for the risk-sized
\* quantity, which is a multiple of the quantity step.
ApprovedIsSanitizedRiskSize ==
  (last.op = "guard_signal" /\ last.ret.qty # None /\ last.args.symbol_meta # None) =>
    /\ last.ret.qty = MarginOrder.qty
    /\ RIsMultiple(last.ret.qty, last.args.symbol_meta.quantity_increment)

\* The quantity the latest call sent for a level.
SentAt(level) == {i \in SentLevels : exch[i].level = level}

\* C38: the fill accounted for a level, from the create_order response or
\* from the fetch_order poll, is at most the quantity sent for that level,
\* and the filled quantity a call hands to the Position is at most the total
\* it sent.
FillWithinSubmitted ==
  InCall =>
    /\ \A f \in Events("fill") :
         \E i \in SentAt(trace[f].level) : RLe(trace[f].qty, exch[i].amount)
    /\ Returned => RLe(last.filled_qty, SentQty)

\* The fill taken from the fetch_order poll is at most the quantity sent.
PolledFillWithinSubmitted ==
  InCall =>
    \A f \in Events("fill") :
      trace[f].src = "fetch" =>
        \E i \in SentAt(trace[f].level) : RLe(trace[f].qty, exch[i].amount)
\* ------------------------------------------------------------------------
\* Properties of the cancels of rejected records
\* ------------------------------------------------------------------------
\* C39: expire_orders and cancel_all call cancel_order only for orders the
\* exchange accepted: a record with status rejected gets no cancel_order
\* call, is not counted as expired and stays in the store.
CancelOnlyAccepted ==
  last.op \in {"expire_orders", "cancel_all"} =>
    /\ \A i \in DOMAIN last.attempts :
         last.before[last.attempts[i]].status # "rejected"
    /\ \A k \in DOMAIN last.before :
         last.before[k].status = "rejected" => k \in DOMAIN orders

\* Every cancel_order call of expire_orders and cancel_all is for a record
\* of the symbol that was in the store when the call began.
CancelOnlyListed ==
  last.op \in {"expire_orders", "cancel_all"} =>
    \A i \in DOMAIN last.attempts :
      /\ last.attempts[i] \in DOMAIN last.before
      /\ last.before[last.attempts[i]].symbol = last.symbol
\* ------------------------------------------------------------------------
\* Properties of the engine across calls and restarts
\* ------------------------------------------------------------------------
\* C2: when a submit_ladder call is cut short by a process stop, wherever it
\* stood, and is run again for the same signal after the restart, the re-run
\* works with the timestamp of the first attempt (hence the same client order
\* id per level), and the exchange never accepts two orders for the same
\* ladder level of the same signal.
ResumeKeepsIdsNoResubmit ==
  /\ pc # "idle" => frame.ts = frame.ts0
  /\ \A i, j \in DOMAIN exch :
       (exch[i].level >= 0 /\ exch[i].cycle = exch[j].cycle
        /\ exch[i].level = exch[j].level) => i = j

\* C4: no two Order records of the store carry the same client_order_id.
UniqueClientOrderIds ==
  \A k1, k2 \in DOMAIN orders :
    orders[k1].client_order_id = orders[k2].client_order_id => k1 = k2

\* ------------------------------------------------------------------------
\* Properties of the position limit
\* ------------------------------------------------------------------------
\* C9: guard_signal approves no quantity when open_positions >= max_positions,
\* and with the flag clear and no freeze condition met its answer is
\* (none, "max_positions") whatever nav, price and stop are; a cycle that
\* finds a position for its symbol (max_positions = 1) starts no ladder and
\* leaves the exchange with the orders it had.
PositionLimitBlocks ==
  /\ (last.op = "guard_signal" /\ last.args.open_positions >= cfg_max_positions) =>
       /\ last.ret.qty = None
       /\ (~last.was_frozen /\ ~FreezeTriggered(last.args)) =>
            last.ret = Rejected("max_positions")
  /\ (last.op = "run_once" /\ last.open_positions >= 1) =>
       /\ pc = "idle"
       /\ Len(exch) = last.exch_len
       /\ last.status # "submitting"

\* A cycle found the position an earlier cycle had opened and was turned
\* down for it.
PositionLimitBlocksWitness ==
  /\ last.op = "run_once"
  /\ last.open_positions = 1
  /\ last.status = "max_position"
  /\ cfg_symbol \in DOMAIN positions
  /\ Len(exch) > 0

====
